---------------------------- MODULE Spec2Model ----------------------------
(***************************************************************************)
(* A model of the recommendation core of Ecommerce-RAG (src/rag_system.py, *)
(* class ECommerceRAG): intent detection, preference updates, retrieval,   *)
(* reranking and response composition.                                     *)
(*                                                                         *)
(* Python values are encoded as follows.                                   *)
(*   - a str that the code searches (a query) is a sequence of one-letter  *)
(*     strings, so that `in`, re.search and lower() are computed;          *)
(*   - an optional value is Absent (the dict has no such key), Null        *)
(*     (the key holds None) or a value tagged with its type: Str(s),       *)
(*     Num(n) or List(s);                                                  *)
(*   - a list is a sequence, a dict keyed by product id is a sequence of   *)
(*     records in insertion order (dicts keep insertion order).            *)
(***************************************************************************)
EXTENDS Integers, Sequences, FiniteSets, TLC

VARIABLES
    query,      \* _detect_query_intent: the raw query string
    intent,     \* _detect_query_intent: the returned intent
    ipc,        \* "ready" before the call, "done" after, "off" otherwise
    prefs,      \* the contents of PREFERENCES_FILE: user id -> profile
    recorded,   \* history: user id -> every Interaction built for the user
    clock,      \* int(time.time())
    calls,      \* history: the number of update_preferences calls made
    ranked,     \* generate_enhanced_response: the context_chunks argument
    comparing,  \* generate_enhanced_response: intent["comparison_requested"]
    service,    \* what the generative service does when it is called
    composed,   \* generate_enhanced_response: how the call ended
    posts,      \* history: the number of requests sent to the service
    cpc,        \* "ready" before the call, "done" after, "off" otherwise
    shift,      \* the vector store: how far its rankings are rotated
    failures,   \* the probes that go wrong, each with the way it does
    hashOrder,  \* the order in which this process iterates a set of str
    top_k,      \* retrieve_with_intent: the top_k argument
    rintent,    \* retrieve_with_intent: the intent argument
    retrieved,  \* retrieve_with_intent: how the call ended
    rpc,        \* "ready" before the call, "done" after, "off" otherwise
    asked,      \* get_recommendations: the query argument
    user,       \* get_recommendations: the user_id argument
    metrics,    \* the metrics file: a list of entries
    runs,       \* what each call of get_recommendations computed, in order
    kmatches,   \* rerank_with_diversity: the matches argument
    kprofile,   \* rerank_with_diversity: the profile argument
    kintent,    \* rerank_with_diversity: the intent argument
    kranked,    \* rerank_with_diversity: how the call ended
    listed,     \* get_recommendations: the products made of the reranked list
    kpc,        \* "ready", then "ranked", then "listed"; "off" otherwise
    appends,    \* every entry handed to log_enhanced_metrics, oldest first
    logs,       \* the number of calls of log_enhanced_metrics
    shape,      \* what the preference file holds: a dict, text that is not JSON, or a list
    finished,   \* how the last call on that file ended
    mshape,     \* what the metrics file holds: a list, text that is not JSON, or a dict
    upc,        \* update_preferences: where each user's call stands
    rdata,      \* update_preferences: each call's local data (line 74)
    rprofile,   \* update_preferences: each call's local profile (lines 75-118)
    rargs       \* update_preferences: each call's product and like arguments

intentVars == <<query, intent, ipc>>
prefVars == <<prefs, recorded, clock, calls>>
composeVars == <<ranked, comparing, service, composed, posts, cpc>>
storeVars == <<shift, failures, hashOrder>>
retrieveVars == <<top_k, rintent, retrieved, rpc>>
pipelineVars == <<asked, user, metrics, runs>>
rankVars == <<kmatches, kprofile, kintent, kranked, listed, kpc>>
metricsVars == <<appends, logs>>
faultVars == <<shape, finished>>
shapeVars == <<mshape>>
raceVars == <<upc, rdata, rprofile, rargs>>

vars == <<intentVars, prefVars, composeVars, storeVars, retrieveVars,
          pipelineVars, rankVars, metricsVars, faultVars,
          shapeVars,
          raceVars>>

-----------------------------------------------------------------------------
(* Optional values *)

Absent == <<"absent">>
Null == <<"null">>
Str(s) == <<"str", s>>
Num(n) == <<"num", n>>
List(s) == <<"list", s>>
IsStr(o) == o[1] = "str"
IsNum(o) == o[1] = "num"
IsList(o) == o[1] = "list"
Get(o) == o[2]

\* dict.get(key): None when the key is absent
PyGet(o) == IF o = Absent THEN Null ELSE o

\* dict.get(key, default)
PyGetOr(o, default) == IF o = Absent THEN default ELSE o

\* isinstance(x, (int, float))
IsNumber(o) == IsNum(o)

\* bool(x): None, "", 0 and [] are false
Truthy(o) ==
    \/ IsStr(o) /\ Get(o) # ""
    \/ IsNum(o) /\ Get(o) # 0
    \/ IsList(o) /\ Get(o) # <<>>

\* the elements of a sequence
Range(s) == {s[k] : k \in 1..Len(s)}

\* no element occurs twice
NoDuplicates(s) == \A i, j \in 1..Len(s) : s[i] = s[j] => i = j

Max(a, b) == IF a >= b THEN a ELSE b
Min(a, b) == IF a <= b THEN a ELSE b

-----------------------------------------------------------------------------
(* Python str operations on sequences of letters *)

UpperLetters ==
    <<"A","B","C","D","E","F","G","H","I","J","K","L","M",
      "N","O","P","Q","R","S","T","U","V","W","X","Y","Z">>

LowerLetters ==
    <<"a","b","c","d","e","f","g","h","i","j","k","l","m",
      "n","o","p","q","r","s","t","u","v","w","x","y","z">>

\* str.lower() on one letter
LowerChar(c) ==
    IF \E k \in 1..26 : UpperLetters[k] = c
    THEN LowerLetters[CHOOSE k \in 1..26 : UpperLetters[k] = c]
    ELSE c

\* str.lower()
Lower(s) == [k \in 1..Len(s) |-> LowerChar(s[k])]

\* s[i:i+len(p)] == p  (i is 1-based)
MatchAt(s, p, i) ==
    /\ i >= 1
    /\ i + Len(p) - 1 <= Len(s)
    /\ \A k \in 1..Len(p) : s[i + k - 1] = p[k]

\* p in s
Contains(s, p) == \E i \in 1..(Len(s) + 1) : MatchAt(s, p, i)

DigitChars == {"0","1","2","3","4","5","6","7","8","9"}

DigitValue(c) ==
    CASE c = "0" -> 0 [] c = "1" -> 1 [] c = "2" -> 2 [] c = "3" -> 3
      [] c = "4" -> 4 [] c = "5" -> 5 [] c = "6" -> 6 [] c = "7" -> 7
      [] c = "8" -> 8 [] c = "9" -> 9

IsDigitAt(s, i) == i >= 1 /\ i <= Len(s) /\ s[i] \in DigitChars

\* the index after the longest run of digits that starts at i: what the
\* greedy (\d+) consumes
RECURSIVE DigitRunEnd(_, _)
DigitRunEnd(s, i) == IF IsDigitAt(s, i) THEN DigitRunEnd(s, i + 1) ELSE i

\* int(s[a:b]) for a run of digits (a inclusive, b exclusive, 1-based)
RECURSIVE DigitsToInt(_, _, _)
DigitsToInt(s, a, b) ==
    IF b <= a THEN 0
    ELSE 10 * DigitsToInt(s, a, b - 1) + DigitValue(s[b - 1])

-----------------------------------------------------------------------------
(* _detect_query_intent *)

category_keywords == <<
    [category |-> "smartphones", keywords |-> <<
        <<"p","h","o","n","e">>,
        <<"m","o","b","i","l","e">>,
        <<"a","n","d","r","o","i","d">>,
        <<"i","p","h","o","n","e">>,
        <<"c","e","l","l","u","l","a","r">>>>],
    [category |-> "laptops", keywords |-> <<
        <<"l","a","p","t","o","p">>,
        <<"n","o","t","e","b","o","o","k">>,
        <<"c","o","m","p","u","t","e","r">>,
        <<"g","a","m","i","n","g"," ","p","c">>,
        <<"w","o","r","k","s","t","a","t","i","o","n">>>>],
    [category |-> "headphones", keywords |-> <<
        <<"h","e","a","d","p","h","o","n","e","s">>,
        <<"e","a","r","b","u","d","s">>,
        <<"a","u","d","i","o">>,
        <<"w","i","r","e","l","e","s","s">>,
        <<"n","o","i","s","e"," ","c","a","n","c","e","l">>>>],
    [category |-> "smartwatches", keywords |-> <<
        <<"w","a","t","c","h">>,
        <<"w","e","a","r","a","b","l","e">>,
        <<"f","i","t","n","e","s","s"," ","t","r","a","c","k","e","r">>>>],
    [category |-> "gaming", keywords |-> <<
        <<"g","a","m","i","n","g">>,
        <<"c","o","n","s","o","l","e">>,
        <<"p","l","a","y","s","t","a","t","i","o","n">>,
        <<"x","b","o","x">>,
        <<"n","i","n","t","e","n","d","o">>>>],
    [category |-> "cameras", keywords |-> <<
        <<"c","a","m","e","r","a">>,
        <<"p","h","o","t","o","g","r","a","p","h","y">>,
        <<"d","s","l","r">>,
        <<"m","i","r","r","o","r","l","e","s","s">>,
        <<"l","e","n","s">>>>] >>

comparison_words == <<
    <<"c","o","m","p","a","r","e">>,
    <<"v","s">>,
    <<"v","e","r","s","u","s">>,
    <<"d","i","f","f","e","r","e","n","c","e">>,
    <<"b","e","t","t","e","r">>,
    <<"b","e","s","t">> >>

feature_keywords == <<
    <<"n","o","i","s","e"," ","c","a","n","c","e","l">>,
    <<"w","i","r","e","l","e","s","s">>,
    <<"g","a","m","i","n","g">>,
    <<"p","r","o","f","e","s","s","i","o","n","a","l">>,
    <<"c","a","m","e","r","a">>,
    <<"b","a","t","t","e","r","y">>,
    <<"f","a","s","t"," ","c","h","a","r","g","i","n","g">>,
    <<"w","a","t","e","r","p","r","o","o","f">>,
    <<"l","i","g","h","t","w","e","i","g","h","t">> >>

\* The five price patterns.  Patterns 1-4 are  <words> \$?(\d+)  and are
\* given by their literal words; pattern 5 is  \$(\d+) budget.
price_patterns == <<
    [kind |-> "prefix", words |-> <<"u","n","d","e","r"," ">>],
    [kind |-> "prefix", words |-> <<"b","e","l","o","w"," ">>],
    [kind |-> "prefix", words |-> <<"l","e","s","s"," ","t","h","a","n"," ">>],
    [kind |-> "prefix", words |-> <<"b","u","d","g","e","t"," ","o","f"," ">>],
    [kind |-> "suffix", words |-> <<" ","b","u","d","g","e","t">>] >>

\* Where the group (\d+) starts if the pattern matches at position i, else 0.
\*   prefix: words, then an optional "$", then at least one digit;
\*   suffix: "$", a run of digits, then words (the run is the longest one,
\*           since words starts with a character that is not a digit).
GroupStart(pat, s, i) ==
    IF pat.kind = "prefix"
    THEN LET j == i + Len(pat.words) IN
         IF ~MatchAt(s, pat.words, i) THEN 0
         ELSE IF j <= Len(s) /\ s[j] = "$" /\ IsDigitAt(s, j + 1) THEN j + 1
         ELSE IF IsDigitAt(s, j) THEN j
         ELSE 0
    ELSE IF /\ i <= Len(s)
            /\ s[i] = "$"
            /\ IsDigitAt(s, i + 1)
            /\ MatchAt(s, pat.words, DigitRunEnd(s, i + 1))
         THEN i + 1
         ELSE 0

\* re_search with the rightmost match taken instead of the leftmost
re_search_rightmost(pat, s) ==
    LET hits == {i \in 1..Len(s) : GroupStart(pat, s, i) > 0} IN
    IF hits = {} THEN Null
    ELSE LET i == CHOOSE h \in hits : \A g \in hits : h >= g
             a == GroupStart(pat, s, i)
         IN  Num(DigitsToInt(s, a, DigitRunEnd(s, a)))

\* re.search(pattern, s): the leftmost position where the pattern matches;
\* Null when there is none, else Num(int(match.group(1)))
re_search(pat, s) ==
    LET hits == {i \in 1..Len(s) : GroupStart(pat, s, i) > 0} IN
    IF hits = {} THEN Null
    ELSE LET i == CHOOSE h \in hits : \A g \in hits : h <= g
             a == GroupStart(pat, s, i)
         IN  Num(DigitsToInt(s, a, DigitRunEnd(s, a)))

\* for pattern in price_patterns: ... break on the first pattern that matches
RECURSIVE FirstPriceMatch(_, _)
FirstPriceMatch(s, k) ==
    IF k > Len(price_patterns) THEN Null
    ELSE LET m == re_search(price_patterns[k], s) IN
         IF IsNum(m) THEN m ELSE FirstPriceMatch(s, k + 1)

\* any(keyword in query_lower for keyword in keywords)
CategoryHit(q, entry) ==
    \E k \in 1..Len(entry.keywords) : Contains(q, entry.keywords[k])

\* for category, keywords in category_keywords.items(): ... append(category)
\* from the k-th entry of the table on
RECURSIVE DetectCategories(_, _)
DetectCategories(q, k) ==
    IF k > Len(category_keywords) THEN <<>>
    ELSE (IF CategoryHit(q, category_keywords[k])
          THEN <<category_keywords[k].category>> ELSE <<>>)
         \o DetectCategories(q, k + 1)

\* for feature in feature_keywords: if feature in query_lower: append
RECURSIVE DetectFeatures(_, _)
DetectFeatures(q, k) ==
    IF k > Len(feature_keywords) THEN <<>>
    ELSE (IF Contains(q, feature_keywords[k])
          THEN <<feature_keywords[k]>> ELSE <<>>)
         \o DetectFeatures(q, k + 1)

detect_query_intent(raw) ==
    LET query_lower == Lower(raw)
        comparison == \E k \in 1..Len(comparison_words) :
                          Contains(query_lower, comparison_words[k])
        price == FirstPriceMatch(query_lower, 1)
    IN  [type |-> IF comparison THEN "comparison" ELSE "general",
         categories |-> DetectCategories(query_lower, 1),
         comparison_requested |-> comparison,
         budget_mentioned |-> IsNum(price),
         price_range |-> price,
         specific_features |-> DetectFeatures(query_lower, 1)]

-----------------------------------------------------------------------------
(* Queries: a few whole queries, and every concatenation of at most        *)
(* MaxFragments fragments.                                                 *)

MaxFragments == 3

ScenarioQuery ==
    <<"c","h","e","a","p"," ","w","i","r","e","l","e","s","s"," ",
      "h","e","a","d","p","h","o","n","e","s"," ",
      "u","n","d","e","r"," ","$","1","0","0">>

Fragments == {
    <<"u","n","d","e","r"," ","$">>,
    <<"U","n","d","e","r"," ">>,
    <<"5","0","0">>,
    <<"0">>,
    <<" ">>,
    <<"u","n","d","e","r"," ","$","1","0","0"," ">>,
    <<"b","e","l","o","w"," ","$","7"," ">>,
    <<"$","9"," ","b","u","d","g","e","t"," ">>,
    <<"B","e","s","t"," ","c","a","m","e","r","a"," ">> }

RECURSIVE Concatenations(_)
Concatenations(n) ==
    IF n = 0 THEN {<<>>}
    ELSE LET shorter == Concatenations(n - 1) IN
         shorter \cup {s \o f : s \in shorter, f \in Fragments}

Queries == Concatenations(MaxFragments) \cup {ScenarioQuery}

IntentInit ==
    /\ query \in Queries
    /\ intent = detect_query_intent(<<>>)
    /\ ipc = "ready"

IntentIdle ==
    /\ query = <<>>
    /\ intent = detect_query_intent(<<>>)
    /\ ipc = "off"

DetectIntent ==
    /\ ipc = "ready"
    /\ intent' = detect_query_intent(query)
    /\ ipc' = "done"
    /\ UNCHANGED <<query, prefVars, composeVars, storeVars, retrieveVars,
                   pipelineVars, rankVars,
                   metricsVars, faultVars,
                   shapeVars, raceVars>>

-----------------------------------------------------------------------------
(* The preference store and update_preferences *)

HistoryLimit == 50

MaxCalls == 3

Users == {"u1", "u2"}

\* The product dicts handed to update_preferences.  Ratings are in tenths.
Products == {
    [product_id |-> "p1", category |-> Str("Headphones"),
     brand |-> Str("SoundCo"), price |-> Num(100), rating |-> Num(45)],
    [product_id |-> "p2", category |-> Str("Speakers"),
     brand |-> Str("SoundCo"), price |-> Num(300), rating |-> Num(40)],
    [product_id |-> "p3", category |-> Null,
     brand |-> Absent, price |-> Str("N/A"), rating |-> Absent] }

default_profile ==
    [preferred_categories |-> <<>>,
     preferred_brands |-> <<>>,
     max_price |-> Null,
     min_rating |-> Null,
     interaction_history |-> <<>>]

\* {} : the dict with no user
NoProfiles == [u \in {} |-> default_profile]

\* _load_prefs: the file's contents, or {} when open/json.load raises
load_prefs(file, readOk) == IF readOk THEN file ELSE NoProfiles

\* _save_prefs: the file holds data, or is left as it was when the write
\* raises
save_prefs(file, data, writeOk) == IF writeOk THEN data ELSE file

\* data.get(user_id, {...defaults...})
get_user_profile(data, user_id) ==
    IF user_id \in DOMAIN data THEN data[user_id] ELSE default_profile

\* s[-n:]
LastN(s, n) == IF Len(s) <= n THEN s ELSE SubSeq(s, Len(s) - n + 1, Len(s))

\* s[:n]
FirstN(s, n) == IF Len(s) <= n THEN s ELSE SubSeq(s, 1, n)

\* list.remove(x): drops the first occurrence
RECURSIVE RemoveFirst(_, _)
RemoveFirst(s, x) ==
    IF s = <<>> THEN <<>>
    ELSE IF Head(s) = x THEN Tail(s)
    ELSE <<Head(s)>> \o RemoveFirst(Tail(s), x)

Interaction(product, like, now) ==
    [product_id |-> product.product_id,
     action |-> IF like THEN "like" ELSE "dislike",
     timestamp |-> now,
     category |-> PyGet(product.category),
     brand |-> PyGet(product.brand),
     price |-> PyGet(product.price)]

\* profile["interaction_history"] with the first HistoryLimit entries kept
TrimHistory_keep_oldest(history) == FirstN(history, HistoryLimit)

\* profile["interaction_history"][-50:]
TrimHistory(history) == LastN(history, HistoryLimit)

\* the append with no membership test
AppendIfNew_always(list, o) ==
    IF Truthy(o) THEN Append(list, Get(o)) ELSE list

\* if x and x not in list: list.append(x)
AppendIfNew(list, o) ==
    IF Truthy(o) /\ Get(o) \notin Range(list) THEN Append(list, Get(o))
    ELSE list

\* max_price set to the price of the liked product, whatever it was
RaiseTo_overwrite(old, o) == IF ~IsNumber(o) THEN old ELSE o

\* max_price: None -> price, else max(old, price)
RaiseTo(old, o) ==
    IF ~IsNumber(o) THEN old
    ELSE IF old = Null THEN o
    ELSE Num(Max(Get(old), Get(o)))

\* min_rating: None -> rating, else min(old, rating)
LowerTo(old, o) ==
    IF ~IsNumber(o) THEN old
    ELSE IF old = Null THEN o
    ELSE Num(Min(Get(old), Get(o)))

\* the list left as it is
RemoveBrand_keep(list, o) == list

\* if brand in list: list.remove(brand).  A brand of None is never in the
\* list, which holds only what AppendIfNew put there.
RemoveBrand(list, o) ==
    IF IsStr(o) /\ Get(o) \in Range(list) THEN RemoveFirst(list, Get(o))
    ELSE list

\* lines 77-118: the profile after one interaction
updated_profile(profile, product, like, now) ==
    LET history == TrimHistory(
            Append(profile.interaction_history, Interaction(product, like, now)))
    IN  IF like
        THEN [preferred_categories |->
                  AppendIfNew(profile.preferred_categories, product.category),
              preferred_brands |->
                  AppendIfNew(profile.preferred_brands, product.brand),
              max_price |-> RaiseTo(profile.max_price, product.price),
              min_rating |-> LowerTo(profile.min_rating, product.rating),
              interaction_history |-> history]
        ELSE [profile EXCEPT
                 !.preferred_brands = RemoveBrand(@, product.brand),
                 !.interaction_history = history]

\* data[user_id] = profile
SetItem(data, user_id, profile) == (user_id :> profile) @@ data

\* update_preferences: the file after the call.  The file is read twice
\* (line 74, and line 75 through get_user_profile) and written once.
update_preferences(file, user_id, product, like, now, read1, read2, writeOk) ==
    LET data == load_prefs(file, read1)
        profile == get_user_profile(load_prefs(file, read2), user_id)
    IN  save_prefs(file,
                   SetItem(data, user_id,
                           updated_profile(profile, product, like, now)),
                   writeOk)

FirstUser == "u1"

FirstProduct == CHOOSE p \in Products : p.product_id = "p1"

\* The calls with varied arguments start after this many earlier calls:
\* none, or enough to bring a history to its limit.
EarlierCalls == {0, HistoryLimit - 1, HistoryLimit}

\* _ensure_files_exist: the file holds {}
PrefsInit ==
    /\ prefs = NoProfiles
    /\ recorded = [u \in Users |-> <<>>]
    /\ clock = 1
    /\ calls = 0

PrefsIdle ==
    /\ prefs = NoProfiles
    /\ recorded = [u \in Users |-> <<>>]
    /\ clock = 0
    /\ calls = 0

\* update_preferences(user_id, product, like) with the store working
Call(user_id, product, like) ==
    /\ prefs' = update_preferences(prefs, user_id, product, like, clock,
                                   TRUE, TRUE, TRUE)
    /\ recorded' = [recorded EXCEPT
                        ![user_id] = Append(@, Interaction(product, like, clock))]
    /\ clock' = clock + 1

\* an earlier call: the first user likes the first product
EarlierLike ==
    /\ calls = 0
    /\ Len(recorded[FirstUser]) < HistoryLimit
    /\ Call(FirstUser, FirstProduct, TRUE)
    /\ UNCHANGED <<calls, intentVars, composeVars, storeVars, retrieveVars,
                   pipelineVars, rankVars,
                   metricsVars, faultVars,
                   shapeVars, raceVars>>

\* a call with any user, any product, like or dislike
UpdatePreferences ==
    /\ calls < MaxCalls
    /\ calls = 0 => Len(recorded[FirstUser]) \in EarlierCalls
    /\ \E u \in Users, p \in Products, like \in BOOLEAN : Call(u, p, like)
    /\ calls' = calls + 1
    /\ UNCHANGED <<intentVars, composeVars, storeVars, retrieveVars,
                   pipelineVars, rankVars,
                   metricsVars, faultVars,
                   shapeVars, raceVars>>

PrefsNext == EarlierLike \/ UpdatePreferences

-----------------------------------------------------------------------------
(* generate_enhanced_response and _generate_fallback_response *)

FallbackChunks == 6

PromptChunks == 10

\* A retrieved chunk: a match of the vector store, with an id, a score (in
\* hundredths) and metadata.  The metadata fields are optional.  A match
\* has no "type" of its own (update_index.py stores the type inside the
\* metadata), so chunk.get("type", "") is "".
Chunk(id, score, product_id, name, price, rating, category, brand) ==
    [id |-> id, score |-> score,
     metadata |-> [product_id |-> product_id, name |-> name, price |-> price,
                   rating |-> rating, category |-> category, brand |-> brand]]

\* lines 365-382: products_info, one record for each product id of the
\* first ten chunks.  Neither branch of lines 386-392 runs, the type of a
\* match being "".
RECURSIVE PromptProducts(_, _)
PromptProducts(chunks, products) ==
    IF chunks = <<>> THEN products
    ELSE LET metadata == Head(chunks).metadata
             product_id == PyGet(metadata.product_id)
         IN  IF Truthy(product_id) /\ product_id \notin
                    {products[k].product_id : k \in 1..Len(products)}
             THEN PromptProducts(Tail(chunks), Append(products,
                      [product_id |-> product_id,
                       name |-> PyGetOr(metadata.name, Str("Unknown")),
                       category |-> PyGetOr(metadata.category, Str("Unknown")),
                       brand |-> PyGetOr(metadata.brand, Str("Unknown")),
                       price |-> PyGetOr(metadata.price, Str("N/A")),
                       rating |-> PyGetOr(metadata.rating, Str("N/A"))]))
             ELSE PromptProducts(Tail(chunks), products)

\* _build_enhanced_prompt: the parts of the prompt that vary
build_enhanced_prompt(chunks, comparison_requested) ==
    LET products_info == PromptProducts(FirstN(chunks, PromptChunks), <<>>) IN
    [context |-> products_info,
     instruction_type |->
         IF comparison_requested THEN "comparison"
         ELSE IF Len(products_info) > 3 THEN "ranking"
         ELSE "recommendation"]

\* products.values(): the records of a dict keyed by product id, in
\* insertion order
HasKey(products, product_id) ==
    \E k \in 1..Len(products) : products[k].product_id = product_id

\* lines 549-564: one record for each product id of the first six chunks
RECURSIVE FallbackProducts(_, _)
FallbackProducts(chunks, products) ==
    IF chunks = <<>> THEN products
    ELSE LET metadata == Head(chunks).metadata
             product_id == PyGet(metadata.product_id)
         IN  IF Truthy(product_id) /\ ~HasKey(products, product_id)
             THEN FallbackProducts(Tail(chunks), Append(products,
                      [product_id |-> product_id,
                       name |-> PyGetOr(metadata.name, Str("Unknown Product")),
                       price |-> PyGetOr(metadata.price, Num(0)),
                       rating |-> PyGetOr(metadata.rating, Num(0)),
                       category |-> PyGetOr(metadata.category, Str("Unknown")),
                       brand |-> PyGetOr(metadata.brand, Str("Unknown"))]))
             ELSE FallbackProducts(Tail(chunks), products)

\* min(products.values(), key=price) compares the price of each later
\* record with the price of the best one so far, with "<": a TypeError
\* unless both are numbers
MinRaises(products) ==
    /\ Len(products) >= 2
    /\ \E k \in 1..Len(products) : ~IsNum(products[k].price)

\* min(products.values(), key=price): the only record, or the first record
\* of the lowest price
MinByPrice(products) ==
    IF Len(products) = 1 THEN products[1]
    ELSE products[CHOOSE k \in 1..Len(products) :
             /\ \A j \in 1..Len(products) :
                   Get(products[k].price) <= Get(products[j].price)
             /\ \A j \in 1..(k - 1) :
                   Get(products[j].price) > Get(products[k].price)]

FallbackSummary ==
    Str("Here are some relevant product recommendations based on your search.")

DefaultSummary ==
    Str("Here are the product recommendations based on your query.")

\* how a call ends: it returns a value, or it raises
Returned(path, value) == [outcome |-> "returned", path |-> path, value |-> value]
Raised(path) == [outcome |-> "raised", path |-> path, value |-> <<>>]

\* _generate_fallback_response
generate_fallback_response(context_chunks) ==
    LET products == FallbackProducts(FirstN(context_chunks, FallbackChunks), <<>>)
    IN  IF products = <<>>
        THEN Returned("fallback",
                 [summary |-> FallbackSummary,
                  comparisons |-> List(<<>>),
                  top_pick |-> Str("No products found"),
                  budget_pick |-> Str("No budget option found")])
        ELSE IF MinRaises(products) THEN Raised("fallback")
        ELSE Returned("fallback",
                 [summary |-> FallbackSummary,
                  comparisons |-> List(products),
                  top_pick |-> products[1].name,
                  budget_pick |-> MinByPrice(products).name])

\* The text the service returns, as a sequence of tokens: a brace, a word
\* of prose, or one complete "key": value member of a JSON object.
LBrace == [t |-> "{", key |-> "", value |-> Null]
RBrace == [t |-> "}", key |-> "", value |-> Null]
Prose == [t |-> "prose", key |-> "", value |-> Null]
Member(key, value) == [t |-> "member", key |-> key, value |-> value]

\* content.find('{'): the first index (1-based), 0 when there is none
FindLBrace(content) ==
    IF \E i \in 1..Len(content) : content[i] = LBrace
    THEN CHOOSE i \in 1..Len(content) :
             content[i] = LBrace /\ \A j \in 1..(i - 1) : content[j] # LBrace
    ELSE 0

\* content.rfind('}'): the last index (1-based), 0 when there is none
RFindRBrace(content) ==
    IF \E i \in 1..Len(content) : content[i] = RBrace
    THEN CHOOSE i \in 1..Len(content) :
             content[i] = RBrace /\ \A j \in (i + 1)..Len(content) : content[j] # RBrace
    ELSE 0

\* json.loads accepts the text when it is one object: a brace, members, a
\* brace
JsonParses(text) ==
    /\ Len(text) >= 2
    /\ text[1] = LBrace
    /\ text[Len(text)] = RBrace
    /\ \A i \in 2..(Len(text) - 1) : text[i].t = "member"

\* parsed.get(key) after json.loads: the last member of that key
JsonGet(text, key) ==
    LET at == {i \in 1..Len(text) : text[i].t = "member" /\ text[i].key = key}
    IN  IF at = {} THEN Absent
        ELSE text[CHOOSE i \in at : \A j \in at : j <= i].value

\* lines 526-535: the parsed object, comparisons and summary defaulted
PatchedResponse(text) ==
    [summary |-> IF Truthy(JsonGet(text, "summary"))
                 THEN JsonGet(text, "summary") ELSE DefaultSummary,
     comparisons |-> IF IsList(JsonGet(text, "comparisons"))
                     THEN JsonGet(text, "comparisons") ELSE List(<<>>),
     top_pick |-> JsonGet(text, "top_pick"),
     budget_pick |-> JsonGet(text, "budget_pick")]

\* what the service does: requests.post raises (timeout, connection
\* error); a status other than 200; a 200 whose body is not the expected
\* JSON envelope; a 200 with some text
ServiceAnswers(s) == s.kind = "text"

\* generate_enhanced_response with the fallback taken when comparisons is
\* not a list or summary is empty
generate_enhanced_response_strict(context_chunks, how) ==
    IF ~ServiceAnswers(how) THEN generate_fallback_response(context_chunks)
    ELSE LET content == how.content
             json_start == FindLBrace(content)
             json_end == RFindRBrace(content)
             json_content == SubSeq(content, json_start, json_end)
         IN  IF json_start = 0 \/ json_end = 0
             THEN generate_fallback_response(context_chunks)
             ELSE IF /\ JsonParses(json_content)
                     /\ IsList(JsonGet(json_content, "comparisons"))
                     /\ Truthy(JsonGet(json_content, "summary"))
             THEN Returned("parsed", PatchedResponse(json_content))
             ELSE generate_fallback_response(context_chunks)

\* generate_enhanced_response.  Every way into the fallback is inside the
\* try block or its handler at line 541: an exception of the fallback
\* called at lines 512, 521 or 539 is caught there and the fallback is
\* called again at line 543, from where an exception leaves the method.
generate_enhanced_response(context_chunks, how) ==
    IF ~ServiceAnswers(how) THEN generate_fallback_response(context_chunks)
    ELSE LET content == how.content
             json_start == FindLBrace(content)
             json_end == RFindRBrace(content)
             json_content == SubSeq(content, json_start, json_end)
         IN  IF json_start = 0 \/ json_end = 0
             THEN generate_fallback_response(context_chunks)
             ELSE IF JsonParses(json_content)
             THEN Returned("parsed", PatchedResponse(json_content))
             ELSE generate_fallback_response(context_chunks)

\* The arguments and the service of generate_enhanced_response

MaxShort == 2

MaxRanked == 8

MaxEntries == 7

Catalog == <<"P1", "P2", "P3", "P4", "P5", "P6",
             "P7", "P8", "P9", "P10", "P11", "P12">>

ShortChunks == {
    Chunk(<<"c", 1>>, 90, Str("A"), Str("Alpha"), Num(30), Num(45),
          Str("Headphones"), Str("SoundCo")),
    Chunk(<<"c", 2>>, 80, Str("B"), Str("Beta"), Num(10), Num(40),
          Str("Headphones"), Str("SoundCo")),
    Chunk(<<"c", 3>>, 70, Str("B"), Str("Beta"), Num(10), Num(40),
          Str("Headphones"), Str("SoundCo")),
    Chunk(<<"c", 4>>, 60, Str("C"), Null, Null, Null,
          Str("Laptops"), Str("Lapco")),
    Chunk(<<"c", 5>>, 50, Str("D"), Absent, Absent, Absent,
          Absent, Absent),
    Chunk(<<"c", 6>>, 40, Null, Str("Zed"), Num(5), Num(30),
          Str("Gaming"), Null) }

\* the sequences of at most n different chunks
RECURSIVE ShortLists(_)
ShortLists(n) ==
    IF n = 0 THEN {<<>>}
    ELSE LET shorter == ShortLists(n - 1) IN
         shorter \cup {l \in {Append(h, c) : h \in shorter, c \in ShortChunks} :
                          NoDuplicates(l)}

\* n chunks of n products, and n chunks of which each two belong to one
\* product
LongList(n) ==
    [k \in 1..n |->
        Chunk(<<"long", k>>, 100 - k, Str(Catalog[k]), Str(Catalog[k]),
              Num(10 * (13 - k)), Num(40), Str("Headphones"), Str(Catalog[k]))]

PairedList(n) ==
    [k \in 1..n |->
        Chunk(<<"pair", k>>, 100 - k, Str(Catalog[(k + 1) \div 2]),
              Str(Catalog[(k + 1) \div 2]), Num(10 * ((k + 1) \div 2)),
              Num(40), Str("Headphones"), Str(Catalog[(k + 1) \div 2]))]

RankedLists ==
    ShortLists(MaxShort)
        \cup {LongList(n) : n \in 3..MaxRanked}
        \cup {PairedList(n) : n \in 3..MaxRanked}

Entries(n) == [k \in 1..n |-> [name |-> Str(Catalog[k])]]

Summaries == {Absent, Null, Str(""), Num(0), Str("Good picks."), Num(7)}

ComparisonValues ==
    {Absent, Null, Str("none")} \cup {List(Entries(n)) : n \in {0, 3, MaxEntries}}

PickValues == {Absent, Str("Alpha")}

MemberOrNone(key, value) ==
    IF value = Absent THEN <<>> ELSE <<Member(key, value)>>

JsonObject(summary, comparisons, pick) ==
    <<LBrace>> \o MemberOrNone("summary", summary)
               \o MemberOrNone("comparisons", comparisons)
               \o MemberOrNone("top_pick", pick)
               \o MemberOrNone("budget_pick", pick)
               \o <<RBrace>>

Bodies ==
    {<<>>, <<Prose>>, <<LBrace, Prose>>, <<RBrace, Prose, LBrace>>}
        \cup {JsonObject(s, c, p) :
                  s \in Summaries, c \in ComparisonValues, p \in PickValues}

Contents ==
    {pre \o body \o post :
        pre \in {<<>>, <<Prose>>, <<Prose, LBrace, Prose, RBrace, Prose>>},
        body \in Bodies,
        post \in {<<>>, <<Prose>>}}

Services ==
    {[kind |-> k, content |-> <<>>] : k \in {"transport", "status", "malformed"}}
        \cup {[kind |-> "text", content |-> c] : c \in Contents}

NotComposed == Raised("none")

ComposeInit ==
    /\ ranked \in RankedLists
    /\ comparing \in BOOLEAN
    /\ service \in Services
    /\ composed = NotComposed
    /\ posts = <<>>
    /\ cpc = "ready"

ComposeIdle ==
    /\ ranked = <<>>
    /\ comparing = FALSE
    /\ service = [kind |-> "transport", content |-> <<>>]
    /\ composed = NotComposed
    /\ posts = <<>>
    /\ cpc = "off"

\* one call of generate_enhanced_response
Compose ==
    /\ cpc = "ready"
    /\ posts' = Append(posts, build_enhanced_prompt(ranked, comparing))
    /\ composed' = generate_enhanced_response(ranked, service)
    /\ cpc' = "done"
    /\ UNCHANGED <<ranked, comparing, service, intentVars, prefVars,
                   storeVars, retrieveVars, pipelineVars, rankVars,
                   metricsVars, faultVars,
                   shapeVars, raceVars>>

-----------------------------------------------------------------------------
(* The vector store, the embedding model and retrieve_with_intent *)

MaxShift == 2

\* config.RELATED_CATEGORIES
RELATED_CATEGORIES(category) ==
    CASE category = "Smartphones" ->
             <<"Smartwatches", "Headphones", "Tablets", "Smart Home">>
      [] category = "Laptops" ->
             <<"Monitors", "Headphones", "Keyboards", "Gaming">>
      [] category = "Headphones" ->
             <<"Smartphones", "Laptops", "Gaming", "Tablets">>
      [] category = "Smartwatches" -> <<"Smartphones", "Headphones">>
      [] category = "Gaming" -> <<"Headphones", "Monitors", "Laptops">>
      [] category = "Tablets" -> <<"Keyboards", "Headphones", "Smart Home">>
      [] category = "Smart Home" -> <<"Smartphones", "Tablets">>
      [] category = "Cameras" -> <<"Headphones", "Storage", "Laptops">>
      [] OTHER -> <<>>

\* The vectors of the index: twelve chunks of ten products.
IndexedCategory(k) ==
    CASE k \in {1, 2, 3, 10} -> Str("Headphones")
      [] k \in {4, 5, 11} -> Str("Smartwatches")
      [] k \in {6, 7, 12} -> Str("Gaming")
      [] k = 8 -> Null
      [] OTHER -> Absent

IndexedBrand(k) ==
    CASE k \in {1, 2, 4, 10} -> Str("SoundCo")
      [] k \in {3, 5, 6} -> Str("Acme")
      [] k = 9 -> Absent
      [] OTHER -> Str("Zenith")

IndexedProduct(k) ==
    CASE k \in {1, 2} -> Str("P1")
      [] k \in {4, 5} -> Str("P4")
      [] OTHER -> Str(Catalog[k])

IndexedPrice(k) ==
    CASE k \in {1, 2} -> Num(80)
      [] k = 3 -> Num(150)
      [] k \in {4, 5} -> Num(100)
      [] k = 7 -> Null
      [] k = 9 -> Absent
      [] OTHER -> Num(30 * k)

\* the similarity, in hundredths: the last four chunks score the same
IndexedScore(k) == IF k >= 9 THEN 50 ELSE 100 - 5 * k

Indexed(k) ==
    Chunk(<<"v", k>>, IndexedScore(k), IndexedProduct(k), IndexedProduct(k),
          IndexedPrice(k), Num(40), IndexedCategory(k), IndexedBrand(k))

\* A probe is the text that is embedded: the query alone, the query with
\* ". Category: c", or the query with ". Related category: r".
PrimaryProbe == <<"primary", "">>
CategoryProbe(c) == <<"category", c>>
RelatedProbe(r) == <<"related", r>>

\* the store's ranking for the vector of each probe, best first, before
\* rotation
BaseRanking(probe) ==
    CASE probe = PrimaryProbe -> <<1, 4, 6, 2, 9>>
      [] probe = CategoryProbe("headphones") -> <<2, 3, 1, 2>>
      [] probe = CategoryProbe("smartphones") -> <<4, 6, 3>>
      [] probe = CategoryProbe("smartwatches") -> <<5, 4>>
      [] probe = RelatedProbe("Smartphones") -> <<10, 9, 11>>
      [] probe = RelatedProbe("Laptops") -> <<11, 12, 6>>
      [] probe = RelatedProbe("Headphones") -> <<3, 1, 12, 10>>
      [] probe = RelatedProbe("Monitors") -> <<12, 5, 6, 8, 7>>
      [] OTHER -> <<>>

\* s rotated left by n places
Rotate(s, n) ==
    IF s = <<>> THEN s
    ELSE [k \in 1..Len(s) |-> s[((k - 1 + n) % Len(s)) + 1]]

\* The score of a match is its similarity to the vector that was queried,
\* so the matches of one chunk for different probes differ in their score:
\* by this much, in hundredths.
ProbeOffset(probe) ==
    CASE probe[1] = "primary" -> 0
      [] probe[1] = "category" -> 1
      [] OTHER -> 2

\* index.query for the vector of a probe: the matches, best first
Matches(probe, rotation) ==
    LET ranking == Rotate(BaseRanking(probe), rotation) IN
    [k \in 1..Len(ranking) |->
        [Indexed(ranking[k]) EXCEPT !.score = @ - ProbeOffset(probe)]]

\* embed_query raises for this probe
EmbedRaises(failing, probe) == <<probe, "embed">> \in failing

\* index.query raises for this probe
QueryRaises(failing, probe) == <<probe, "query">> \in failing

\* index.query answers this probe with no match
NoMatch(failing, probe) == <<probe, "empty">> \in failing

\* embed_query followed by _query_index: the list of at most k matches, or
\* [] when index.query raises.  (When embed_query raises the caller never
\* gets here: see ProbeRaises.)
query_index(failing, rotation, probe, k) ==
    IF QueryRaises(failing, probe) \/ EmbedRaises(failing, probe) THEN <<>>
    ELSE IF NoMatch(failing, probe) THEN <<>>
    ELSE FirstN(Matches(probe, rotation), k)

\* the results of the probes of a list, concatenated in the list's order
RECURSIVE ProbeAll(_, _, _, _)
ProbeAll(failing, rotation, probes, k) ==
    IF probes = <<>> THEN <<>>
    ELSE query_index(failing, rotation, Head(probes), k)
         \o ProbeAll(failing, rotation, Tail(probes), k)

\* lines 211-219: the price filter
RECURSIVE PriceFiltered(_, _)
PriceFiltered(results, limit) ==
    IF results = <<>> THEN <<>>
    ELSE LET price == PyGet(Head(results).metadata.price) IN
         (IF IsNumber(price) /\ Get(price) <= limit
          THEN <<Head(results)>> ELSE <<>>)
         \o PriceFiltered(Tail(results), limit)

\* the filter applied also when nothing passes it
ApplyBudget_always(results, anIntent) ==
    IF anIntent.budget_mentioned /\ Truthy(anIntent.price_range)
    THEN PriceFiltered(results, Get(anIntent.price_range))
    ELSE results

ApplyBudget(results, anIntent) ==
    IF anIntent.budget_mentioned /\ Truthy(anIntent.price_range)
    THEN LET price_filtered == PriceFiltered(results, Get(anIntent.price_range))
         IN  IF price_filtered # <<>> THEN price_filtered ELSE results
    ELSE results

\* lines 223-227: categories_found, a set
CategoriesFound(results) ==
    {Get(results[k].metadata.category) :
        k \in {j \in 1..Len(results) :
                  Truthy(PyGet(results[j].metadata.category))}}

\* for x in a_set: the elements in the order of the process's hashing
RECURSIVE SetOrder(_, _)
SetOrder(set, order) ==
    IF order = <<>> THEN <<>>
    ELSE (IF Head(order) \in set THEN <<Head(order)>> ELSE <<>>)
         \o SetOrder(set, Tail(order))

\* lines 229-231: the related categories to probe, in probing order
RECURSIVE RelatedOf(_)
RelatedOf(categories) ==
    IF categories = <<>> THEN <<>>
    ELSE FirstN(RELATED_CATEGORIES(Head(categories)), 2)
         \o RelatedOf(Tail(categories))

\* the results cut at limit, with every occurrence of an id kept
Deduplicate_keep_all(results, seen_ids, unique_results, limit) ==
    FirstN(results, Max(limit, 1))

\* the first occurrence of each id, all of them
RECURSIVE Deduplicate_no_limit(_, _, _, _)
Deduplicate_no_limit(results, seen_ids, unique_results, limit) ==
    IF results = <<>> THEN unique_results
    ELSE IF Head(results).id \in seen_ids
    THEN Deduplicate_no_limit(Tail(results), seen_ids, unique_results, limit)
    ELSE Deduplicate_no_limit(Tail(results), seen_ids \cup {Head(results).id},
                              Append(unique_results, Head(results)), limit)

\* lines 238-246: the first occurrence of each id, until limit are kept
RECURSIVE Deduplicate(_, _, _, _)
Deduplicate(results, seen_ids, unique_results, limit) ==
    IF results = <<>> THEN unique_results
    ELSE IF Head(results).id \in seen_ids
    THEN Deduplicate(Tail(results), seen_ids, unique_results, limit)
    ELSE IF Len(unique_results) + 1 >= limit
    THEN Append(unique_results, Head(results))
    ELSE Deduplicate(Tail(results), seen_ids \cup {Head(results).id},
                     Append(unique_results, Head(results)), limit)

\* the probes of stages 1 and 2
FirstProbes(anIntent) ==
    [k \in 1..Len(anIntent.categories) |-> CategoryProbe(anIntent.categories[k])]

\* the accumulator after stages 1 to 3
PrimaryResults(failing, rotation, anIntent, k) ==
    ApplyBudget(
        query_index(failing, rotation, PrimaryProbe, k)
            \o ProbeAll(failing, rotation, FirstProbes(anIntent), Max(5, k \div 3)),
        anIntent)

\* the probes of stage 4, in the order they are issued
RelatedProbes(primary_results, order) ==
    LET related == RelatedOf(SetOrder(CategoriesFound(primary_results), order))
    IN  [j \in 1..Len(related) |-> RelatedProbe(related[j])]

\* embed_query is called outside any try: its exception leaves
\* retrieve_with_intent
ProbeRaises(failing, probes) ==
    \E j \in 1..Len(probes) : EmbedRaises(failing, probes[j])

\* retrieve_with_intent
retrieve_with_intent(failing, rotation, order, anIntent, k) ==
    LET primary_results == PrimaryResults(failing, rotation, anIntent, k)
        related == RelatedProbes(primary_results, order)
    IN  IF ProbeRaises(failing,
                       <<PrimaryProbe>> \o FirstProbes(anIntent) \o related)
        THEN Raised("retrieve")
        ELSE Returned("retrieve",
                 Deduplicate(
                     primary_results
                         \o ProbeAll(failing, rotation, related, Max(3, k \div 5)),
                     {}, <<>>, 2 * k))

\* The calls of retrieve_with_intent that are examined.
DefaultTopK == 15

TopKs == {1, DefaultTopK}

AnIntent(categories, price_range) ==
    [type |-> "general", categories |-> categories,
     comparison_requested |-> FALSE,
     budget_mentioned |-> IsNum(price_range), price_range |-> price_range,
     specific_features |-> <<>>]

RetrievalIntents ==
    {AnIntent(categories, price_range) :
        categories \in {<<>>, <<"headphones">>, <<"smartphones", "headphones">>,
                        <<"cameras", "smartwatches">>},
        price_range \in {Null, Num(0), Num(100)}}

Probes ==
    {PrimaryProbe}
        \cup {CategoryProbe(c) : c \in {"headphones", "smartphones", "smartwatches"}}
        \cup {RelatedProbe(r) : r \in {"Smartphones", "Laptops", "Headphones",
                                       "Monitors"}}

\* what goes wrong: nothing, one thing for one probe, or for every probe
FailurePoints == Probes \X {"embed", "query", "empty"}

Failures ==
    {{}} \cup {{f} : f \in FailurePoints}
         \cup {Probes \X {how} : how \in {"query", "empty"}}

\* the categories of the indexed chunks
StoreCategories == {"Headphones", "Smartwatches", "Gaming"}

\* every order in which a set of these can be iterated
HashOrders ==
    {order \in [1..Cardinality(StoreCategories) -> StoreCategories] :
        NoDuplicates(order)}

StoreInit ==
    /\ shift \in 0..MaxShift
    /\ failures \in Failures
    /\ hashOrder \in HashOrders

StoreIdle ==
    /\ shift = 0
    /\ failures = {}
    /\ hashOrder = <<>>

NotRetrieved == Raised("none")

RetrieveInit ==
    /\ top_k \in TopKs
    /\ rintent \in RetrievalIntents
    /\ retrieved = NotRetrieved
    /\ rpc = "ready"

RetrieveIdle ==
    /\ top_k = 0
    /\ rintent = AnIntent(<<>>, Null)
    /\ retrieved = NotRetrieved
    /\ rpc = "off"

\* one call of retrieve_with_intent
Retrieve ==
    /\ rpc = "ready"
    /\ retrieved' = retrieve_with_intent(failures, shift, hashOrder, rintent, top_k)
    /\ rpc' = "done"
    /\ UNCHANGED <<top_k, rintent, storeVars, intentVars, prefVars, composeVars,
                   pipelineVars, rankVars,
                   metricsVars, faultVars,
                   shapeVars, raceVars>>

-----------------------------------------------------------------------------
(* _enhanced_preference_score and rerank_with_diversity *)

\* The scores are kept as integers: a score of the store counts
\* hundredths, a final score counts ten-thousandths.  Ratings count tenths.
WEIGHT_PINECONE == 100
WEIGHT_PREF_CATEGORY == 2500
WEIGHT_PREF_BRAND == 2000
WEIGHT_PREF_PRICE == 1500
RatingBonus == 1000
InteractionBonus == 500
MaxInteractionBonus == 1500
ComparisonBonus == 1000
RecentInteractions == 20
MaxSameBrand == 2
MaxSameCategory == 2
MaxSameIntentCategory == 4
MaxRerank == 15

\* the letters of the category names that occur
Letters(name) ==
    CASE name = "Headphones" -> <<"H","e","a","d","p","h","o","n","e","s">>
      [] name = "Smartwatches" -> <<"S","m","a","r","t","w","a","t","c","h","e","s">>
      [] name = "Gaming" -> <<"G","a","m","i","n","g">>
      [] name = "Laptops" -> <<"L","a","p","t","o","p","s">>
      [] name = "Smartphones" -> <<"S","m","a","r","t","p","h","o","n","e","s">>
      [] name = "Speakers" -> <<"S","p","e","a","k","e","r","s">>
      [] name = "headphones" -> <<"h","e","a","d","p","h","o","n","e","s">>
      [] name = "smartwatches" -> <<"s","m","a","r","t","w","a","t","c","h","e","s">>
      [] name = "gaming" -> <<"g","a","m","i","n","g">>
      [] name = "laptops" -> <<"l","a","p","t","o","p","s">>
      [] name = "smartphones" -> <<"s","m","a","r","t","p","h","o","n","e","s">>
      [] name = "cameras" -> <<"c","a","m","e","r","a","s">>
      [] name = "Cameras" -> <<"C","a","m","e","r","a","s">>
      [] name = "Monitors" -> <<"M","o","n","i","t","o","r","s">>
      [] name = "Tablets" -> <<"T","a","b","l","e","t","s">>
      [] OTHER -> <<>>

\* x in a_list, for the str or None that dict.get returned
InList(o, list) == IsStr(o) /\ Get(o) \in Range(list)

\* lines 281-293: the likes among the last 20 interactions that share the
\* category or the brand (None equals None)
PositiveSimilar(metadata, profile) ==
    LET recent == LastN(profile.interaction_history, RecentInteractions) IN
    Cardinality({k \in 1..Len(recent) :
        /\ recent[k].action = "like"
        /\ \/ recent[k].category = PyGet(metadata.category)
           \/ recent[k].brand = PyGet(metadata.brand)})

\* _enhanced_preference_score.  The quotient of line 270 is rounded down
\* to a ten-thousandth.
enhanced_preference_score(metadata, profile) ==
    LET max_price == profile.max_price
        price == PyGet(metadata.price)
        min_rating == profile.min_rating
        rating == PyGet(metadata.rating)
        positive_similar == PositiveSimilar(metadata, profile)
    IN  (IF InList(PyGet(metadata.category), profile.preferred_categories)
         THEN WEIGHT_PREF_CATEGORY ELSE 0)
        + (IF InList(PyGet(metadata.brand), profile.preferred_brands)
           THEN WEIGHT_PREF_BRAND ELSE 0)
        + (IF Truthy(max_price) /\ IsNumber(price)
           THEN IF Get(price) <= Get(max_price) THEN WEIGHT_PREF_PRICE
                ELSE 0 - Min(WEIGHT_PREF_PRICE,
                             ((Get(price) - Get(max_price)) * WEIGHT_PREF_PRICE)
                                 \div Get(max_price))
           ELSE 0)
        + (IF Truthy(min_rating) /\ IsNumber(rating) /\ Get(rating) >= Get(min_rating)
           THEN RatingBonus ELSE 0)
        + (IF positive_similar > 0
           THEN Min(MaxInteractionBonus, positive_similar * InteractionBonus)
           ELSE 0)

\* metadata.get(key, "").lower() raises when the value is None
LowerRaises(o) == o = Null

\* metadata.get(key, "").lower(), as letters
LowerOf(o) == IF IsStr(o) THEN Lower(Letters(Get(o))) ELSE <<>>

\* lines 312-317: the bonus of a comparison.  (The bonus of lines 320-324
\* is 0: the matches of the model carry no "text" and no "avg_sentiment".)
IntentBonus(metadata, anIntent) ==
    IF /\ anIntent.comparison_requested
       /\ \E k \in 1..Len(anIntent.categories) :
              Contains(LowerOf(metadata.category), Letters(anIntent.categories[k]))
    THEN ComparisonBonus ELSE 0

\* lines 302-326: final_score
FinalScore(match, profile, anIntent) ==
    match.score * WEIGHT_PINECONE
        + enhanced_preference_score(match.metadata, profile)
        + IntentBonus(match.metadata, anIntent)

\* line 330: list.sort(key=score, reverse=True), which keeps the matches of
\* equal score in the order they had.  One match is inserted into a sorted
\* list after every match of a score at least as high.
InsertByScore(sorted, match, profile, anIntent) ==
    LET before == {k \in 1..Len(sorted) :
                      FinalScore(sorted[k], profile, anIntent)
                          >= FinalScore(match, profile, anIntent)}
        n == Cardinality(before)
    IN  SubSeq(sorted, 1, n) \o <<match>> \o SubSeq(sorted, n + 1, Len(sorted))

RECURSIVE SortByScore(_, _, _, _)
SortByScore(matches, sorted, profile, anIntent) ==
    IF matches = <<>> THEN sorted
    ELSE SortByScore(Tail(matches),
                     InsertByScore(sorted, Head(matches), profile, anIntent),
                     profile, anIntent)

\* the count left out: no admitted match is taken to share the value
CountSame_none(final_results, field, o) == 0

\* lines 343-346: the admitted matches whose brand (category) equals the
\* value read with the default ""
CountSame(final_results, field, o) ==
    Cardinality({k \in 1..Len(final_results) :
        PyGet(final_results[k].metadata[field]) = PyGetOr(o, Str(""))})

\* the limit of 2 for every category
max_same_category_flat(category, anIntent) == MaxSameCategory

\* line 349
max_same_category(category, anIntent) ==
    IF \E k \in 1..Len(anIntent.categories) :
           LowerOf(category) = Letters(anIntent.categories[k])
    THEN MaxSameIntentCategory ELSE MaxSameCategory

\* lines 337-357: the scan of the sorted matches
RECURSIVE DiversityScan(_, _, _)
DiversityScan(scored_results, final_results, anIntent) ==
    IF scored_results = <<>> THEN Returned("rerank", final_results)
    ELSE LET result == Head(scored_results)
             brand == result.metadata.brand
             category == result.metadata.category
         IN  IF LowerRaises(category) THEN Raised("rerank")
             ELSE IF /\ CountSame(final_results, "brand", brand) < MaxSameBrand
                     /\ CountSame(final_results, "category", category)
                            < max_same_category(category, anIntent)
             THEN IF Len(final_results) + 1 >= MaxRerank
                  THEN Returned("rerank", Append(final_results, result))
                  ELSE DiversityScan(Tail(scored_results),
                                     Append(final_results, result), anIntent)
             ELSE DiversityScan(Tail(scored_results), final_results, anIntent)

\* rerank_with_diversity
rerank_with_diversity(matches, profile, anIntent) ==
    IF /\ anIntent.comparison_requested
       /\ \E k \in 1..Len(matches) : LowerRaises(matches[k].metadata.category)
    THEN Raised("rerank")
    ELSE DiversityScan(SortByScore(matches, <<>>, profile, anIntent), <<>>, anIntent)

-----------------------------------------------------------------------------
(* log_enhanced_metrics and get_recommendations *)

MetricsLimit == 100

MaxProducts == 8

MaxRuns == 2

\* one record for each chunk that has a product id, until there are 8
RECURSIVE UniqueProducts_no_check(_, _)
UniqueProducts_no_check(reranked, unique_products) ==
    IF reranked = <<>> THEN unique_products
    ELSE LET metadata == Head(reranked).metadata
             product_id == PyGet(metadata.product_id)
         IN  IF Truthy(product_id)
             THEN LET added == Append(unique_products,
                          [product_id |-> product_id,
                           name |-> PyGetOr(metadata.name, Str("Unknown")),
                           category |-> PyGetOr(metadata.category, Str("Unknown")),
                           brand |-> PyGetOr(metadata.brand, Str("Unknown")),
                           price |-> PyGetOr(metadata.price, Str("N/A")),
                           rating |-> PyGetOr(metadata.rating, Str("N/A")),
                           relevance |-> Head(reranked).score])
                  IN  IF Len(added) >= MaxProducts THEN added
                      ELSE UniqueProducts_no_check(Tail(reranked), added)
             ELSE UniqueProducts_no_check(Tail(reranked), unique_products)

\* lines 629-647: unique_products, one record for each product id, until
\* there are 8
RECURSIVE UniqueProducts(_, _)
UniqueProducts(reranked, unique_products) ==
    IF reranked = <<>> THEN unique_products
    ELSE LET metadata == Head(reranked).metadata
             product_id == PyGet(metadata.product_id)
         IN  IF Truthy(product_id) /\ ~HasKey(unique_products, product_id)
             THEN LET added == Append(unique_products,
                          [product_id |-> product_id,
                           name |-> PyGetOr(metadata.name, Str("Unknown")),
                           category |-> PyGetOr(metadata.category, Str("Unknown")),
                           brand |-> PyGetOr(metadata.brand, Str("Unknown")),
                           price |-> PyGetOr(metadata.price, Str("N/A")),
                           rating |-> PyGetOr(metadata.rating, Str("N/A")),
                           relevance |-> Head(reranked).score])
                  IN  IF Len(added) >= MaxProducts THEN added
                      ELSE UniqueProducts(Tail(reranked), added)
             ELSE UniqueProducts(Tail(reranked), unique_products)

\* lines 581-589: log_entry.  latency_ms, a measured duration, is left out.
LogEntry(text, anIntent, retrieved_list, order, now) ==
    [query |-> text,
     intent |-> anIntent,
     products_retrieved |-> Len(retrieved_list),
     top_product_ids |->
         [k \in 1..Len(FirstN(retrieved_list, 5)) |->
             PyGet(retrieved_list[k].metadata.product_id)],
     categories_found |->
         SetOrder(CategoriesFound(FirstN(retrieved_list, 10)), order),
     timestamp |-> now]

\* the first 100 entries kept
TrimMetrics_keep_oldest(data) == FirstN(data, MetricsLimit)

\* lines 593-594: if len(data) > 100: data = data[-100:]
TrimMetrics(data) == LastN(data, MetricsLimit)

\* log_enhanced_metrics: the file after the call
log_enhanced_metrics(file, text, anIntent, logged, order, now, readOk, writeOk) ==
    LET data == IF readOk THEN file ELSE <<>>
        appended == Append(data, LogEntry(text, anIntent, logged, order, now))
    IN  IF writeOk THEN TrimMetrics(appended) ELSE file

\* lines 616-620
NoResults ==
    [response |-> Str("I couldn't find any relevant products for your query. Please try rephrasing or using different keywords."),
     products |-> <<>>,
     structured |-> [summary |-> Str("No products found"),
                     comparisons |-> List(<<>>),
                     top_pick |-> Absent,
                     budget_pick |-> Absent]]

NotCalled == Raised("none")

\* get_recommendations: the intent, what retrieval, reranking and the call
\* itself returned or raised, the prompts posted to the service, and the
\* metrics file after the call
get_recommendations(text, user_id, file, log, how, failing, rotation, order, now) ==
    LET profile == get_user_profile(load_prefs(file, TRUE), user_id)
        anIntent == detect_query_intent(text)
        matches == retrieve_with_intent(failing, rotation, order, anIntent,
                                        DefaultTopK)
        reranked == rerank_with_diversity(matches.value, profile, anIntent)
        structured_response == generate_enhanced_response(reranked.value, how)
    IN  IF matches.outcome = "raised"
        THEN [intent |-> anIntent, candidates |-> matches, ranked |-> NotCalled,
              result |-> Raised("retrieve"), posted |-> <<>>,
              metrics |-> log]
        ELSE IF matches.value = <<>>
        THEN [intent |-> anIntent, candidates |-> matches, ranked |-> NotCalled,
              result |-> Returned("empty", NoResults), posted |-> <<>>,
              metrics |-> log_enhanced_metrics(log, text, anIntent, <<>>,
                                               order, now, TRUE, TRUE)]
        ELSE IF reranked.outcome = "raised"
        THEN [intent |-> anIntent, candidates |-> matches, ranked |-> reranked,
              result |-> Raised("rerank"), posted |-> <<>>,
              metrics |-> log]
        ELSE IF structured_response.outcome = "raised"
        THEN [intent |-> anIntent, candidates |-> matches, ranked |-> reranked,
              result |-> Raised(structured_response.path),
              posted |-> <<build_enhanced_prompt(reranked.value,
                                                 anIntent.comparison_requested)>>,
              metrics |-> log]
        ELSE [intent |-> anIntent, candidates |-> matches, ranked |-> reranked,
              result |-> Returned(structured_response.path,
                            [response |-> structured_response.value.summary,
                             products |-> UniqueProducts(reranked.value, <<>>),
                             structured |-> structured_response.value]),
              posted |-> <<build_enhanced_prompt(reranked.value,
                                                 anIntent.comparison_requested)>>,
              metrics |-> log_enhanced_metrics(log, text, anIntent,
                                               reranked.value, order, now,
                                               TRUE, TRUE)]

\* The calls of get_recommendations that are examined.
WatchQuery == <<"B","e","s","t"," ","w","a","t","c","h">>

PlainQuery == <<"h","e","l","l","o">>

PipelineQueries == {ScenarioQuery, WatchQuery, PlainQuery}

\* the file with no profile, and the file after u1 liked one product
PipelineFiles ==
    {NoProfiles,
     update_preferences(NoProfiles, FirstUser, FirstProduct, TRUE, 0,
                        TRUE, TRUE, TRUE)}

PipelineServices ==
    {[kind |-> "transport", content |-> <<>>],
     [kind |-> "text",
      content |-> JsonObject(Str("Good picks."), List(Entries(3)), Str("Alpha"))],
     [kind |-> "text", content |-> JsonObject(Num(7), Absent, Absent)]}

PipelineFailures ==
    {{}, {<<CategoryProbe("headphones"), "query">>}}
        \cup {Probes \X {how} : how \in {"embed", "query", "empty"}}

\* _ensure_files_exist: the metrics file holds []
PipelineInit ==
    /\ asked \in PipelineQueries
    /\ user = FirstUser
    /\ metrics = <<>>
    /\ runs = <<>>
    /\ prefs \in PipelineFiles
    /\ recorded = [u \in Users |-> <<>>]
    /\ clock = 1
    /\ calls = 0
    /\ service \in PipelineServices
    /\ posts = <<>>
    /\ ranked = <<>>
    /\ comparing = FALSE
    /\ composed = NotComposed
    /\ cpc = "off"
    /\ shift \in 0..MaxShift
    /\ failures \in PipelineFailures
    /\ hashOrder \in HashOrders

PipelineIdle ==
    /\ asked = <<>>
    /\ user = FirstUser
    /\ metrics = <<>>
    /\ runs = <<>>

\* one call of get_recommendations
GetRecommendations ==
    /\ Len(runs) < MaxRuns
    /\ \E run \in {get_recommendations(asked, user, prefs, metrics, service,
                                        failures, shift, hashOrder, clock)} :
           /\ runs' = Append(runs, [intent |-> run.intent,
                                    candidates |-> run.candidates,
                                    ranked |-> run.ranked,
                                    result |-> run.result])
           /\ metrics' = run.metrics
           /\ posts' = posts \o run.posted
    /\ clock' = clock + 1
    /\ UNCHANGED <<asked, user, prefs, recorded, calls, ranked, comparing,
                   service, composed, cpc, storeVars, intentVars, retrieveVars, rankVars,
                   metricsVars, faultVars,
                   shapeVars, raceVars>>

\* the program is stopped and started again between two calls: the files
\* stay, the new process hashes str with a new seed
Restart ==
    /\ runs # <<>>
    /\ Len(runs) < MaxRuns
    /\ hashOrder' \in HashOrders \ {hashOrder}
    /\ UNCHANGED <<shift, failures, intentVars, prefVars, composeVars,
                   retrieveVars, pipelineVars, rankVars,
                   metricsVars, faultVars,
                   shapeVars, raceVars>>

PipelineNext == GetRecommendations \/ Restart

-----------------------------------------------------------------------------
(* The calls of rerank_with_diversity that are examined, each followed by  *)
(* the making of the products list (lines 629-647 of get_recommendations). *)

MaxCandidates == 18

RankBrands ==
    <<"SoundCo", "Acme", "Zenith", "Lapco", "Orbit",
      "Nimbus", "Vertex", "Pixel", "Quartz">>

RankCategories ==
    <<"Headphones", "Smartphones", "Laptops", "Smartwatches", "Gaming",
      "Cameras", "Speakers", "Monitors", "Tablets">>

\* The k-th of the matches.  There are nb brands and nc categories, taken
\* in turn; span matches in a row belong to one product; the scores go up
\* and down and repeat.  In a "sparse" list every third match has no brand
\* and no category and the fifth has a brand of None; in a "null" list the
\* fourth match has a category of None.
Candidate(k, nb, nc, span, kind) ==
    LET product == Catalog[(((k - 1) \div span) % Len(Catalog)) + 1]
        bare == kind = "sparse" /\ k % 3 = 0
    IN  Chunk(<<"r", k>>, 50 + 5 * ((7 * k) % 10), Str(product), Str(product),
              Num(10 * k), Num(40),
              IF bare THEN Absent
              ELSE IF kind = "null" /\ k = 4 THEN Null
              ELSE Str(RankCategories[((k - 1) % nc) + 1]),
              IF bare THEN Absent
              ELSE IF kind = "sparse" /\ k = 5 THEN Null
              ELSE Str(RankBrands[((k - 1) % nb) + 1]))

Candidates(n, nb, nc, span, kind) ==
    [k \in 1..n |-> Candidate(k, nb, nc, span, kind)]

CandidateLists ==
    {Candidates(n, mix[1], mix[2], span, kind) :
        n \in 0..MaxCandidates,
        mix \in {<<1, 1>>, <<2, 1>>, <<2, 9>>, <<9, 3>>, <<9, 9>>},
        span \in {1, 2},
        kind \in {"plain", "sparse", "null"}}

RankIntents ==
    {AnIntent(<<>>, Null),
     AnIntent(<<"headphones", "smartphones", "laptops", "smartwatches">>, Null),
     [AnIntent(<<"gaming">>, Null) EXCEPT !.comparison_requested = TRUE]}

RankProfiles ==
    {get_user_profile(file, FirstUser) : file \in PipelineFiles}

NotRanked == Raised("none")

RankInit ==
    /\ kmatches \in CandidateLists
    /\ kprofile \in RankProfiles
    /\ kintent \in RankIntents
    /\ kranked = NotRanked
    /\ listed = <<>>
    /\ kpc = "ready"

RankIdle ==
    /\ kmatches = <<>>
    /\ kprofile = default_profile
    /\ kintent = AnIntent(<<>>, Null)
    /\ kranked = NotRanked
    /\ listed = <<>>
    /\ kpc = "off"

\* one call of rerank_with_diversity
Rerank ==
    /\ kpc = "ready"
    /\ kranked' = rerank_with_diversity(kmatches, kprofile, kintent)
    /\ kpc' = "ranked"
    /\ UNCHANGED <<kmatches, kprofile, kintent, listed, intentVars, prefVars,
                   composeVars, storeVars, retrieveVars, pipelineVars,
                   metricsVars, faultVars,
                   shapeVars, raceVars>>

\* lines 629-647, run on the list that rerank_with_diversity returned
ListProducts ==
    /\ kpc = "ranked"
    /\ kranked.outcome = "returned"
    /\ listed' = UniqueProducts(kranked.value, <<>>)
    /\ kpc' = "listed"
    /\ UNCHANGED <<kmatches, kprofile, kintent, kranked, intentVars, prefVars,
                   composeVars, storeVars, retrieveVars, pipelineVars,
                   metricsVars, faultVars,
                   shapeVars, raceVars>>

RankNext == Rerank \/ ListProducts

-----------------------------------------------------------------------------
(* The calls of log_enhanced_metrics that are examined: the metrics file   *)
(* holds some entries of earlier calls, and more are appended.             *)

MaxLogs == 3

\* the entry the k-th earlier call appended
PastEntry(k) == LogEntry(PlainQuery, AnIntent(<<>>, Null), <<>>, <<>>, k)

\* the numbers of entries the file holds at the start
PastLengths == {0, MetricsLimit - 2, MetricsLimit - 1, MetricsLimit}

\* what the calls hand over as the retrieved list
LoggedLists == {<<>>, LongList(3)}

MetricsInit ==
    /\ \E n \in PastLengths : metrics = [k \in 1..n |-> PastEntry(k)]
    /\ appends = metrics
    /\ logs = 0
    /\ hashOrder \in HashOrders

MetricsIdle ==
    /\ appends = <<>>
    /\ logs = 0

\* one call of log_enhanced_metrics with the metrics file readable and
\* writable
LogMetrics ==
    /\ logs < MaxLogs
    /\ \E text \in PipelineQueries, logged \in LoggedLists :
          /\ metrics' = log_enhanced_metrics(metrics, text, AnIntent(<<>>, Null),
                                             logged, hashOrder,
                                             Len(appends) + 1, TRUE, TRUE)
          /\ appends' = Append(appends,
                               LogEntry(text, AnIntent(<<>>, Null), logged,
                                        hashOrder, Len(appends) + 1))
    /\ logs' = logs + 1
    /\ UNCHANGED <<asked, user, runs, hashOrder, shift, failures, intentVars,
                   prefVars, composeVars, retrieveVars, rankVars,
                   faultVars,
                   shapeVars, raceVars>>

MetricsNext == LogMetrics

-----------------------------------------------------------------------------
(* The preference file failing: get_user_profile, update_preferences and   *)
(* get_recommendations when the file cannot be read or written, or holds   *)
(* something else than a dict of profiles.                                 *)

MaxFaultCalls == 2

\* what the file holds: a dict of profiles, text that json.load rejects,
\* or JSON that is a list
Shapes == {"dict", "corrupt", "list"}

\* _load_prefs returns a list: open and json.load succeed, nothing checks
\* the type of what was loaded
LoadsList(aShape, readOk) == readOk /\ aShape = "list"

\* _load_prefs when it returns a dict: the file's dict, or {} when open or
\* json.load raises
LoadedDict(file, aShape, readOk) == load_prefs(file, readOk /\ aShape = "dict")

\* a call, the user id of an update_preferences call, whether one of its
\* reads failed, and how it ended
Finished(op, readFailed, result) ==
    [op |-> op, user_id |-> "", readFailed |-> readFailed, result |-> result]

NotFinished == Finished("none", FALSE, Raised("none"))

FaultInit ==
    /\ shape \in Shapes
    /\ prefs \in (IF shape = "dict" THEN PipelineFiles ELSE {NoProfiles})
    /\ finished = NotFinished
    /\ recorded = [u \in Users |-> <<>>]
    /\ clock = 1
    /\ calls = 0
    /\ asked \in PipelineQueries
    /\ user = FirstUser
    /\ metrics = <<>>
    /\ runs = <<>>
    /\ service \in PipelineServices
    /\ posts = <<>>
    /\ ranked = <<>>
    /\ comparing = FALSE
    /\ composed = NotComposed
    /\ cpc = "off"
    /\ shift = 0
    /\ failures = {}
    /\ hashOrder = <<"Headphones", "Smartwatches", "Gaming">>

FaultIdle ==
    /\ shape = "dict"
    /\ finished = NotFinished

\* get_user_profile(user_id): data.get raises AttributeError on a list
GetProfileWithFaults ==
    /\ calls < MaxFaultCalls
    /\ \E u \in Users, readOk \in BOOLEAN :
          finished' =
              Finished("get_user_profile", ~(readOk /\ shape = "dict"),
                  IF LoadsList(shape, readOk) THEN Raised("get_user_profile")
                  ELSE Returned("get_user_profile",
                           get_user_profile(LoadedDict(prefs, shape, readOk), u)))
    /\ calls' = calls + 1
    /\ UNCHANGED <<prefs, shape, recorded, clock, intentVars, composeVars,
                   storeVars, retrieveVars, pipelineVars, rankVars, metricsVars,
                   shapeVars, raceVars>>

\* update_preferences(user_id, product, like): the file is read at line 74
\* and again at line 75 (in get_user_profile, where data.get raises on a
\* list), data[user_id] = profile at line 120 raises TypeError on a list,
\* and the write at line 121 may fail
UpdateWithFaults ==
    /\ calls < MaxFaultCalls
    /\ \E u \in Users, like \in BOOLEAN, read1, read2, writeOk \in BOOLEAN :
          LET readFailed == ~(read1 /\ read2 /\ shape = "dict") IN
          IF LoadsList(shape, read1) \/ LoadsList(shape, read2)
          THEN /\ finished' = [Finished("update_preferences", readFailed,
                                        Raised("update_preferences"))
                                   EXCEPT !.user_id = u]
               /\ UNCHANGED <<prefs, shape,
                   shapeVars, raceVars>>
          ELSE /\ prefs' = update_preferences(prefs, u, FirstProduct, like, clock,
                               read1 /\ shape = "dict", read2 /\ shape = "dict",
                               writeOk)
               /\ shape' = IF writeOk THEN "dict" ELSE shape
               /\ finished' = [Finished("update_preferences", readFailed,
                                        Returned("update_preferences", writeOk))
                                   EXCEPT !.user_id = u]
    /\ clock' = clock + 1
    /\ calls' = calls + 1
    /\ UNCHANGED <<recorded, intentVars, composeVars, storeVars, retrieveVars,
                   pipelineVars, rankVars, metricsVars,
                   shapeVars, raceVars>>

\* get_recommendations(query, user_id): line 608 reads the profile
RecommendWithFaults ==
    /\ calls < MaxFaultCalls
    /\ \E readOk \in BOOLEAN :
          IF LoadsList(shape, readOk)
          THEN /\ finished' = Finished("get_recommendations", TRUE,
                                       Raised("get_user_profile"))
               /\ UNCHANGED <<metrics, posts,
                   shapeVars, raceVars>>
          ELSE \E run \in {get_recommendations(asked, user,
                               LoadedDict(prefs, shape, readOk), metrics,
                               service, failures, shift, hashOrder, clock)} :
                  /\ finished' = Finished("get_recommendations",
                                          ~(readOk /\ shape = "dict"), run.result)
                  /\ metrics' = run.metrics
                  /\ posts' = posts \o run.posted
    /\ clock' = clock + 1
    /\ calls' = calls + 1
    /\ UNCHANGED <<prefs, shape, recorded, asked, user, runs, ranked, comparing,
                   service, composed, cpc, storeVars, intentVars, retrieveVars,
                   rankVars, metricsVars,
                   shapeVars, raceVars>>

FaultNext == GetProfileWithFaults \/ UpdateWithFaults \/ RecommendWithFaults

-----------------------------------------------------------------------------
(* The metrics file failing: get_recommendations when the file cannot be   *)
(* read or written, or holds something else than a list of entries.        *)

\* what the file holds: a list of entries, text that json.load rejects, or
\* JSON that is a dict
MetricsShapes == {"list", "corrupt", "dict"}

\* line 590: data.append raises AttributeError when json.load gave a dict;
\* the statement is outside both try blocks of log_enhanced_metrics
AppendRaises(aShape, readOk) == readOk /\ aShape = "dict"

\* the list get_recommendations hands to log_enhanced_metrics: [] at line
\* 615, reranked at line 650; nothing when the call raised before
LoggedList(run) ==
    IF run.result.path = "empty" THEN <<>> ELSE run.ranked.value

ShapeIdle == mshape = "list"

ShapeInit ==
    /\ mshape \in MetricsShapes
    /\ metrics \in (IF mshape = "list" THEN {<<>>, <<PastEntry(1)>>} ELSE {<<>>})
    /\ finished = NotFinished
    /\ shape = "dict"
    /\ prefs \in PipelineFiles
    /\ recorded = [u \in Users |-> <<>>]
    /\ clock = 1
    /\ calls = 0
    /\ asked \in PipelineQueries
    /\ user = FirstUser
    /\ runs = <<>>
    /\ service \in PipelineServices
    /\ posts = <<>>
    /\ ranked = <<>>
    /\ comparing = FALSE
    /\ composed = NotComposed
    /\ cpc = "off"
    /\ shift = 0
    /\ failures \in {{}, Probes \X {"empty"}}
    /\ hashOrder = <<"Headphones", "Smartwatches", "Gaming">>

\* get_recommendations(query, user_id) with the metrics file failing: the
\* call runs as far as log_enhanced_metrics (line 615 or 650), which reads
\* the file, appends, and writes
RecommendWithMetricsFaults ==
    /\ calls < MaxFaultCalls
    /\ \E readOk, writeOk \in BOOLEAN :
       \E run \in {get_recommendations(asked, user, prefs, metrics, service,
                                       failures, shift, hashOrder, clock)} :
          LET failed == ~(readOk /\ writeOk /\ mshape = "list") IN
          /\ posts' = posts \o run.posted
          /\ IF run.result.outcome = "raised"
             THEN /\ finished' = Finished("get_recommendations", failed, run.result)
                  /\ UNCHANGED <<metrics, mshape,
                   raceVars>>
             ELSE IF AppendRaises(mshape, readOk)
             THEN /\ finished' = Finished("get_recommendations", failed,
                                          Raised("log_enhanced_metrics"))
                  /\ UNCHANGED <<metrics, mshape,
                   raceVars>>
             ELSE /\ finished' = Finished("get_recommendations", failed, run.result)
                  /\ metrics' = log_enhanced_metrics(metrics, asked, run.intent,
                                    LoggedList(run), hashOrder, clock,
                                    readOk /\ mshape = "list", writeOk)
                  /\ mshape' = IF writeOk THEN "list" ELSE mshape
    /\ clock' = clock + 1
    /\ calls' = calls + 1
    /\ UNCHANGED <<prefs, shape, recorded, asked, user, runs, ranked, comparing,
                   service, composed, cpc, storeVars, intentVars, retrieveVars,
                   rankVars, metricsVars,
                   raceVars>>

ShapeNext == RecommendWithMetricsFaults

-----------------------------------------------------------------------------
(* update_preferences called by two sessions at once.  Each session of the
   app runs on its own thread with its own ECommerceRAG object, and all of
   them share the preference file; nothing locks it.  A call is three steps:
   the read of line 74, the read of line 75 with the changes of lines 77-118
   made on the local profile, and the write of lines 120-121. *)

\* the preference file before the two calls: {} , one with a profile of the
\* first user, one with a profile of each user
RaceFiles ==
    PipelineFiles \cup
    {update_preferences(file, "u2", FirstProduct, FALSE, 0, TRUE, TRUE, TRUE) :
         file \in PipelineFiles \ {NoProfiles}}

RaceArguments == [product : Products, like : BOOLEAN]

RaceIdle ==
    /\ upc = [u \in Users |-> "off"]
    /\ rdata = [u \in Users |-> NoProfiles]
    /\ rprofile = [u \in Users |-> default_profile]
    /\ rargs = [u \in Users |-> [product |-> FirstProduct, like |-> TRUE]]

\* one call of update_preferences(u, product, like) is about to start for
\* each user id
RaceInit ==
    /\ prefs \in RaceFiles
    /\ recorded = [u \in Users |-> <<>>]
    /\ clock = 1
    /\ calls = 0
    /\ upc = [u \in Users |-> "called"]
    /\ rdata = [u \in Users |-> NoProfiles]
    /\ rprofile = [u \in Users |-> default_profile]
    /\ rargs \in [Users -> RaceArguments]

\* the groups of variables no step of update_preferences touches
RaceFrame ==
    UNCHANGED <<intentVars, composeVars, storeVars, retrieveVars,
                   pipelineVars, rankVars, metricsVars, faultVars, shapeVars>>

\* line 74: data = self._load_prefs()
LoadData ==
    \E u \in Users :
        /\ upc[u] = "called"
        /\ rdata' = [rdata EXCEPT ![u] = load_prefs(prefs, TRUE)]
        /\ upc' = [upc EXCEPT ![u] = "loaded"]
        /\ UNCHANGED <<prefVars, rprofile, rargs>>
        /\ RaceFrame

\* lines 75-118: profile = self.get_user_profile(user_id), which reads the
\* file again, then the changes to the local profile
ModifyProfile ==
    \E u \in Users :
        /\ upc[u] = "loaded"
        /\ rprofile' = [rprofile EXCEPT ![u] =
               updated_profile(get_user_profile(load_prefs(prefs, TRUE), u),
                               rargs[u].product, rargs[u].like, clock)]
        /\ recorded' = [recorded EXCEPT ![u] =
               Append(@, Interaction(rargs[u].product, rargs[u].like, clock))]
        /\ clock' = clock + 1
        /\ upc' = [upc EXCEPT ![u] = "modified"]
        /\ UNCHANGED <<prefs, calls, rdata, rargs>>
        /\ RaceFrame

\* lines 120-121: data[user_id] = profile; self._save_prefs(data)
SaveData ==
    \E u \in Users :
        /\ upc[u] = "modified"
        /\ prefs' = save_prefs(prefs, SetItem(rdata[u], u, rprofile[u]), TRUE)
        /\ upc' = [upc EXCEPT ![u] = "done"]
        /\ UNCHANGED <<recorded, clock, calls, rdata, rprofile, rargs>>
        /\ RaceFrame

\* one step of one of the two calls
RaceNext == LoadData \/ ModifyProfile \/ SaveData

-----------------------------------------------------------------------------
(* Specifications, one for each part of the program *)

InitIntent == IntentInit /\ PrefsIdle /\ ComposeIdle /\ StoreIdle
        /\ RetrieveIdle /\ PipelineIdle /\ RankIdle
        /\ MetricsIdle /\ FaultIdle /\ ShapeIdle /\ RaceIdle

SpecIntent == InitIntent /\ [][DetectIntent]_vars

InitPrefs == PrefsInit /\ IntentIdle /\ ComposeIdle /\ StoreIdle
        /\ RetrieveIdle /\ PipelineIdle /\ RankIdle
        /\ MetricsIdle /\ FaultIdle /\ ShapeIdle /\ RaceIdle

SpecPrefs == InitPrefs /\ [][PrefsNext]_vars

InitCompose == ComposeInit /\ IntentIdle /\ PrefsIdle /\ StoreIdle
        /\ RetrieveIdle /\ PipelineIdle /\ RankIdle
        /\ MetricsIdle /\ FaultIdle /\ ShapeIdle /\ RaceIdle

SpecCompose == InitCompose /\ [][Compose]_vars

InitRetrieve ==
    StoreInit /\ RetrieveInit /\ IntentIdle /\ PrefsIdle /\ ComposeIdle
        /\ PipelineIdle /\ RankIdle
        /\ MetricsIdle /\ FaultIdle /\ ShapeIdle /\ RaceIdle

SpecRetrieve == InitRetrieve /\ [][Retrieve]_vars

InitPipeline == PipelineInit /\ IntentIdle /\ RetrieveIdle /\ RankIdle
        /\ MetricsIdle /\ FaultIdle /\ ShapeIdle /\ RaceIdle

SpecPipeline == InitPipeline /\ [][PipelineNext]_vars

InitRank ==
    RankInit /\ IntentIdle /\ PrefsIdle /\ ComposeIdle /\ StoreIdle
        /\ RetrieveIdle /\ PipelineIdle
        /\ MetricsIdle /\ FaultIdle /\ ShapeIdle /\ RaceIdle

SpecRank == InitRank /\ [][RankNext]_vars

InitMetrics ==
    MetricsInit /\ IntentIdle /\ PrefsIdle /\ ComposeIdle /\ RetrieveIdle
        /\ RankIdle /\ FaultIdle
        /\ asked = <<>> /\ user = FirstUser /\ runs = <<>>
        /\ shift = 0 /\ failures = {}
        /\ ShapeIdle /\ RaceIdle

SpecMetrics == InitMetrics /\ [][MetricsNext]_vars

InitFault ==
    FaultInit /\ IntentIdle /\ RetrieveIdle /\ RankIdle /\ MetricsIdle
        /\ ShapeIdle /\ RaceIdle

SpecFault == InitFault /\ [][FaultNext]_vars

InitShape ==
    ShapeInit /\ IntentIdle /\ RetrieveIdle /\ RankIdle /\ MetricsIdle
        /\ RaceIdle


SpecShape == InitShape /\ [][ShapeNext]_vars

InitRace ==
    RaceInit /\ IntentIdle /\ ComposeIdle /\ StoreIdle /\ RetrieveIdle
        /\ PipelineIdle /\ RankIdle /\ MetricsIdle /\ FaultIdle /\ ShapeIdle

SpecRace == InitRace /\ [][RaceNext]_vars

-----------------------------------------------------------------------------
(* Properties of _detect_query_intent *)

Under500 == <<"u","n","d","e","r"," ","$","5","0","0">>

UnderWord == <<"u","n","d","e","r"," ">>

\* the positions of the lower-cased query where the words "under " are
\* followed by digits, with or without a "$" between them
UnderPhrases(q) ==
    {i \in 1..Len(q) :
        /\ MatchAt(q, UnderWord, i)
        /\ \/ IsDigitAt(q, i + 6)
           \/ (IsDigitAt(q, i + 7) /\ q[i + 6] = "$")}

\* the leftmost "under [$]<digits>" phrase of q is "under $500" and no
\* digit follows it
FirstUnderPhraseIs500(q) ==
    \E i \in UnderPhrases(q) :
        /\ \A j \in UnderPhrases(q) : i <= j
        /\ MatchAt(q, Under500, i)
        /\ ~IsDigitAt(q, i + Len(Under500))

\* C7 as stated: every query that contains "under $500" yields
\* budget_mentioned = true and price_range = 500.
C7_PriceRangeIs500 ==
    (ipc = "done" /\ Contains(query, Under500)) =>
        (intent.budget_mentioned /\ intent.price_range = Num(500))

\* C7 as amended: every query that contains "under $500" yields
\* budget_mentioned = true and a price_range; the price_range is 500 when
\* the leftmost "under [$]<digits>" phrase of the lower-cased query is
\* "under $500" with no further digit after it.
C7_FirstUnderPhraseDecides ==
    (ipc = "done" /\ Contains(query, Under500)) =>
        /\ intent.budget_mentioned
        /\ IsNum(intent.price_range)
        /\ FirstUnderPhraseIs500(Lower(query)) =>
               intent.price_range = Num(500)

\* C7 witness: a query with another price phrase before "under $500",
\* for which the call returned 500.
C7_Witness ==
    /\ ipc = "done"
    /\ Contains(query, Under500)
    /\ Contains(query, <<"b","e","l","o","w"," ","$","7">>)
    /\ FirstUnderPhraseIs500(Lower(query))
    /\ intent.price_range = Num(500)

\* C8: the query "cheap wireless headphones under $100" yields
\* comparison_requested = false, categories = ["headphones"],
\* budget_mentioned = true, price_range = 100 and
\* specific_features = ["wireless"].
C8_HeadphonesScenario ==
    (ipc = "done" /\ query = ScenarioQuery) =>
        /\ intent.comparison_requested = FALSE
        /\ intent.categories = <<"headphones">>
        /\ intent.budget_mentioned = TRUE
        /\ intent.price_range = Num(100)
        /\ intent.specific_features = <<<<"w","i","r","e","l","e","s","s">>>>

-----------------------------------------------------------------------------
(* Properties of update_preferences *)

C10_NoDuplicatePreferences ==
    \A u \in DOMAIN prefs :
        /\ NoDuplicates(prefs[u].preferred_categories)
        /\ NoDuplicates(prefs[u].preferred_brands)

\* C10 witness: a user liked two products of brand SoundCo in different
\* categories, then disliked and liked again; the brand is held once and
\* both categories are held.
C10_Witness ==
    \E u \in DOMAIN prefs :
        LET log == recorded[u] IN
        /\ Len(log) >= 3
        /\ log[Len(log)].action = "like"
        /\ log[Len(log) - 1].action = "dislike"
        /\ log[Len(log) - 2].action = "like"
        /\ \A k \in (Len(log) - 2)..Len(log) : log[k].brand = Str("SoundCo")
        /\ log[Len(log)].category # log[Len(log) - 2].category
        /\ prefs[u].preferred_brands = <<"SoundCo">>
        /\ Range(prefs[u].preferred_categories) = {"Headphones", "Speakers"}

-----------------------------------------------------------------------------
(* Properties of generate_enhanced_response *)

\* C1: generate_enhanced_response never raises: whatever the ranked list
\* and whatever the service does, the call returns a value.
C1_NeverRaises == cpc = "done" => composed.outcome = "returned"

\* the text between the first "{" and the last "}" of the service's answer
BracedText == SubSeq(service.content, FindLBrace(service.content),
                     RFindRBrace(service.content))

\* the service answered with text whose braced part parses as JSON
AnswerParses ==
    /\ service.kind = "text"
    /\ FindLBrace(service.content) > 0
    /\ RFindRBrace(service.content) > 0
    /\ JsonParses(BracedText)

\* a summary that is missing, null or empty
EmptySummaries == {Absent, Null, Str(""), Num(0), List(<<>>)}

\* ... and its comparisons is missing or not a list, or its summary is
\* missing, null or empty
AnswerIncomplete ==
    /\ AnswerParses
    /\ \/ ~IsList(JsonGet(BracedText, "comparisons"))
       \/ JsonGet(BracedText, "summary") \in EmptySummaries

C5_AtMostSixComparisons ==
    (cpc = "done" /\ composed.outcome = "returned") =>
        Len(Get(composed.value.comparisons)) <= 6

-----------------------------------------------------------------------------
(* Properties of retrieve_with_intent *)

\* the probes that raise, in embed_query or in index.query
RaisingProbes ==
    {point[1] : point \in {f \in failures : f[2] \in {"embed", "query"}}}

\* the same store, where the probes that raise match nothing instead
Silenced ==
    {f \in failures : f[2] = "empty"}
        \cup {<<probe, "empty">> : probe \in RaisingProbes}

\* C3: a probe whose embed step or whose query raises contributes an empty
\* result: retrieve_with_intent returns, and returns the deduplicated
\* results of the other probes in stage order, that is what it returns when
\* the probe matches nothing.
C3_ProbeFailureIsolated ==
    rpc = "done" =>
        retrieved = retrieve_with_intent(Silenced, shift, hashOrder, rintent, top_k)

-----------------------------------------------------------------------------
(* Properties of get_recommendations *)

\* C4: two calls with the same query, profile and services compute the same
\* intent, the same candidates in the same order, the same ranked order and
\* the same Recommendation.
C4_RunsAgree ==
    \A i, j \in 1..Len(runs) : runs[i] = runs[j]

\* C6: the structured Recommendation of every returned result has a
\* non-empty string summary, a list comparisons, and the fields top_pick
\* and budget_pick.
C6_SchemaValid ==
    \A i \in 1..Len(runs) :
        runs[i].result.outcome = "returned" =>
            LET structured == runs[i].result.value.structured IN
            /\ IsStr(structured.summary) /\ Get(structured.summary) # ""
            /\ IsList(structured.comparisons)
            /\ structured.top_pick # Absent
            /\ structured.budget_pick # Absent

\* the ids of a list of matches
Ids(results) == [k \in 1..Len(results) |-> results[k].id]

\* lines 222-235: expanded_results, before the deduplication
ExpandedResults ==
    LET primary_results == PrimaryResults(failures, shift, rintent, top_k) IN
    primary_results
        \o ProbeAll(failures, shift, RelatedProbes(primary_results, hashOrder),
                    Max(3, top_k \div 5))

\* C11: the list that retrieve_with_intent returns never holds two
\* candidates of the same id, whatever the probes returned.
C11_NoDuplicateIds ==
    (rpc = "done" /\ retrieved.outcome = "returned") =>
        NoDuplicates(Ids(retrieved.value))

\* C11: a call has returned three candidates or more, where one probe
\* returned the same id twice and two stages returned the same id.
C11_Witness ==
    /\ rpc = "done"
    /\ retrieved.outcome = "returned"
    /\ Len(retrieved.value) >= 3
    /\ \E k \in 1..Len(rintent.categories) :
           ~NoDuplicates(Ids(query_index(failures, shift,
                                         CategoryProbe(rintent.categories[k]),
                                         Max(5, top_k \div 3))))
    /\ \E i, j \in 1..Len(ExpandedResults) :
           /\ i <= Len(query_index(failures, shift, PrimaryProbe, top_k))
           /\ j > Len(PrimaryResults(failures, shift, rintent, top_k))
           /\ ExpandedResults[i].id = ExpandedResults[j].id

-----------------------------------------------------------------------------
(* Properties of rerank_with_diversity and of the products list *)

\* the matches of a list that carry this value in this metadata field
Carrying(list, field, o) ==
    {k \in 1..Len(list) : list[k].metadata[field] = o}

\* the category value is one of intent.categories, letter case apart
IsIntentCategory(o, anIntent) ==
    \E k \in 1..Len(anIntent.categories) :
        Lower(Letters(Get(o))) = Letters(anIntent.categories[k])

\* C12: in the list that rerank_with_diversity returns no brand value is
\* on more than 2 candidates, and no category value is on more than 4
\* candidates when it is one of intent.categories, on more than 2 otherwise.
C12_DiversityLimits ==
    (kpc # "ready" /\ kranked.outcome = "returned") =>
        \A k \in 1..Len(kranked.value) :
            LET brand == kranked.value[k].metadata.brand
                category == kranked.value[k].metadata.category
            IN  /\ brand # Absent =>
                       Cardinality(Carrying(kranked.value, "brand", brand)) <= 2
                /\ category # Absent =>
                       Cardinality(Carrying(kranked.value, "category", category))
                           <= IF IsIntentCategory(category, kintent) THEN 4 ELSE 2

\* C12: a returned list holds 4 candidates of an intent category and 2 of
\* a brand, where the matches held more of both.
C12_Witness ==
    /\ kpc # "ready"
    /\ kranked.outcome = "returned"
    /\ \E k \in 1..Len(kranked.value) :
           LET brand == kranked.value[k].metadata.brand
               category == kranked.value[k].metadata.category
           IN  /\ IsStr(brand) /\ IsStr(category)
               /\ IsIntentCategory(category, kintent)
               /\ Cardinality(Carrying(kranked.value, "category", category)) = 4
               /\ Cardinality(Carrying(kmatches, "category", category)) > 4
               /\ Cardinality(Carrying(kranked.value, "brand", brand)) = 2
               /\ Cardinality(Carrying(kmatches, "brand", brand)) > 2

-----------------------------------------------------------------------------
(* Properties of the fallback path of generate_enhanced_response *)

\* C13: whenever the service yields no parseable JSON object (a status
\* other than 200, a timeout or transport exception, a text with no "{" or
\* no "}", or a braced part that does not parse), the call returns exactly
\* the fallback synthesis of the ranked chunks, and the service was called
\* once and not again.
C13_NoObjectReturnsFallback ==
    (cpc = "done" /\ ~AnswerParses) =>
        /\ composed.outcome = "returned"
        /\ composed.path = "fallback"
        /\ composed = generate_fallback_response(ranked)
        /\ Len(posts) = 1

\* the products the fallback synthesis aggregates from the ranked chunks
Aggregated == FallbackProducts(FirstN(ranked, FallbackChunks), <<>>)

\* the price the first chunk of an aggregated product carries in its
\* metadata (Absent when the chunk has no price)
SourcePrice(product_id) ==
    LET chunks == FirstN(ranked, FallbackChunks)
        first == CHOOSE i \in 1..Len(chunks) :
                     /\ PyGet(chunks[i].metadata.product_id) = product_id
                     /\ \A j \in 1..(i - 1) :
                           PyGet(chunks[j].metadata.product_id) # product_id
    IN  chunks[first].metadata.price

\* C14: in the fallback synthesis budget_pick is the name of the first
\* aggregated product of the lowest price; a product whose price is absent
\* is not cheaper than a product whose price is known, so when some product
\* has a known price the pick is one of those.
C14_BudgetPickIsCheapest ==
    (cpc = "done" /\ composed.outcome = "returned" /\ composed.path = "fallback"
        /\ Aggregated # <<>>) =>
        LET known == {k \in 1..Len(Aggregated) :
                         IsNum(SourcePrice(Aggregated[k].product_id))}
            price(k) == Get(SourcePrice(Aggregated[k].product_id))
        IN  known # {} =>
                \E k \in known :
                    /\ composed.value.budget_pick = Aggregated[k].name
                    /\ \A j \in known : price(k) <= price(j)
                    /\ \A j \in known : j < k => price(j) > price(k)

-----------------------------------------------------------------------------
(* Properties of one call of update_preferences *)

\* the product dict of a recorded interaction
ProductOf(product_id) == CHOOSE p \in Products : p.product_id = product_id

\* the interaction a step records for a user: the last one of the log
LastCall(log) == log[Len(log)]

-----------------------------------------------------------------------------
(* Properties of get_recommendations when nothing is retrieved *)

\* every probe fails in its embed step or in its query step, or returns no
\* match
EveryProbeYieldsNothing ==
    \A probe \in Probes : \E how \in {"embed", "query", "empty"} :
        <<probe, how>> \in failures

\* C17: when every retrieval probe fails or returns nothing,
\* retrieve_with_intent returns the empty list and get_recommendations
\* returns the "no relevant products" response with an empty products
\* list; the reranker and the generative service are not called, and one
\* metrics entry with products_retrieved = 0 is appended.
C17_NothingRetrieved ==
    EveryProbeYieldsNothing =>
        /\ posts = <<>>
        /\ Len(metrics) = Len(runs)
        /\ \A i \in 1..Len(runs) :
              /\ runs[i].candidates.outcome = "returned"
              /\ runs[i].candidates.value = <<>>
              /\ runs[i].ranked = NotCalled
              /\ runs[i].result = Returned("empty", NoResults)
              /\ runs[i].result.value.products = <<>>
              /\ metrics[i].products_retrieved = 0

\* the place of the first chunk of a product in a reranked list
FirstChunkOf(reranked, product_id) ==
    CHOOSE i \in 1..Len(reranked) :
        /\ PyGet(reranked[i].metadata.product_id) = product_id
        /\ \A j \in 1..(i - 1) :
              PyGet(reranked[j].metadata.product_id) # product_id

\* the product ids of a reranked list
ProductIds(reranked) ==
    {PyGet(reranked[i].metadata.product_id) : i \in 1..Len(reranked)}

\* C18: the products list has at most 8 entries, no two entries share a
\* product_id, every entry is a product of the reranked list, and the
\* entries are in the order in which their products first occur in the
\* reranked list, whatever that list is (several chunks of one product
\* included).
C18_ProductsList ==
    kpc = "listed" =>
        /\ Len(listed) <= MaxProducts
        /\ \A i, j \in 1..Len(listed) :
              i # j => listed[i].product_id # listed[j].product_id
        /\ \A i \in 1..Len(listed) :
              listed[i].product_id \in ProductIds(kranked.value)
        /\ \A i, j \in 1..Len(listed) :
              i < j => FirstChunkOf(kranked.value, listed[i].product_id)
                           < FirstChunkOf(kranked.value, listed[j].product_id)

\* C18 witness: the reranked list held chunks of more than 8 products, two
\* chunks of some of them, and the products list holds 8.
C18_Witness ==
    /\ kpc = "listed"
    /\ Len(listed) = MaxProducts
    /\ Cardinality(ProductIds(kranked.value)) > MaxProducts
    /\ \E i, j \in 1..Len(kranked.value) :
          /\ i # j
          /\ kranked.value[i].metadata.product_id =
                 kranked.value[j].metadata.product_id
          /\ \E k \in 1..Len(listed) :
                 listed[k].product_id = PyGet(kranked.value[i].metadata.product_id)

-----------------------------------------------------------------------------
(* Properties of log_enhanced_metrics *)

-----------------------------------------------------------------------------
(* Properties of the calls on a failing preference file *)

\* C20: a failure of the preference file is not an error of the call: when
\* the read fails (the file cannot be opened, or holds text that is not
\* JSON, or holds JSON that is not a dict of profiles), get_user_profile
\* returns the all-default profile and get_recommendations and
\* update_preferences return; update_preferences returns also when its
\* write fails.
C20_FailOpen ==
    /\ finished.readFailed => finished.result.outcome = "returned"
    /\ (finished.readFailed /\ finished.op = "get_user_profile") =>
           finished.result.value = default_profile
    /\ finished.op = "update_preferences" => finished.result.outcome = "returned"

-----------------------------------------------------------------------------
(* Properties of get_recommendations on a failing metrics file *)

\* the result of the call had the metrics file been a readable and
\* writable list
ResultWithWorkingMetrics ==
    get_recommendations(asked, user, prefs, <<>>, service, failures, shift,
                        hashOrder, clock).result

\* C21: a failure of the metrics file (it cannot be read, holds text that
\* is not JSON, holds JSON of the wrong shape, or cannot be written) does
\* not change or prevent the result: get_recommendations does not raise
\* and returns what it returns when the logging succeeds.
C21_MetricsFailureHarmless ==
    (finished.op = "get_recommendations" /\ finished.readFailed) =>
        /\ finished.result.outcome = "returned"
        /\ finished.result = ResultWithWorkingMetrics

-----------------------------------------------------------------------------
(* Properties of the stages of retrieve_with_intent *)

\* the places of expanded_results that hold the first occurrence of an id
FirstOccurrences(results) ==
    {i \in 1..Len(results) : \A j \in 1..(i - 1) : results[j].id # results[i].id}

\* the n-th of these places
NthFirstOccurrence(results, n) ==
    CHOOSE i \in FirstOccurrences(results) :
        Cardinality({j \in FirstOccurrences(results) : j < i}) = n - 1

Stage12 ==
    query_index(failures, shift, PrimaryProbe, top_k)
        \o ProbeAll(failures, shift, FirstProbes(rintent), Max(5, top_k \div 3))

\* the intent mentions a budget and carries a price_range
BudgetSet == rintent.budget_mentioned /\ rintent.price_range # Null

\* the items of the accumulator whose price is a number within the range
Affordable ==
    LET within(result) ==
            /\ IsNum(result.metadata.price)
            /\ Get(result.metadata.price) <= Get(rintent.price_range)
    IN  SelectSeq(Stage12, within)

\* the accumulator after stage 3, as the filter is described
Filtered ==
    IF BudgetSet /\ Affordable # <<>> THEN Affordable ELSE Stage12

-----------------------------------------------------------------------------
(* Properties of the diversity pass of rerank_with_diversity *)

\* the matches sorted by their final score, best first
SortedInput == SortByScore(kmatches, <<>>, kprofile, kintent)

\* the place of a match in a sorted list
PlaceIn(sorted, match) ==
    IF \E i \in 1..Len(sorted) : sorted[i] = match
    THEN CHOOSE i \in 1..Len(sorted) : sorted[i] = match
    ELSE 0

\* an admitted match shares the candidate's brand (category): the
\* candidate carries the field, and the admitted match has its value
SharesField(candidate, admitted, field) ==
    /\ candidate.metadata[field] # Absent
    /\ PyGet(admitted.metadata[field]) = candidate.metadata[field]

\* 4 for a category of the intent, else 2
CategoryLimit(candidate) ==
    IF /\ IsStr(candidate.metadata.category)
       /\ IsIntentCategory(candidate.metadata.category, kintent)
    THEN MaxSameIntentCategory ELSE MaxSameCategory

\* the output is a sub-sequence of the sorted list, given by the places of
\* its candidates, and each candidate of the sorted list is in it exactly
\* when the rule admits it
IsGreedyScan(sorted, out, place) ==
    /\ \A n \in 1..Len(out) : place[n] > 0
    /\ \A m, n \in 1..Len(out) : m < n => place[m] < place[n]
    /\ \A i \in 1..Len(sorted) :
           LET before == {n \in 1..Len(out) : place[n] < i}
               sharing(field) ==
                   {n \in before : SharesField(sorted[i], out[n], field)}
           IN  (\E n \in 1..Len(out) : place[n] = i)
               <=> /\ Cardinality(before) < MaxRerank
                   /\ Cardinality(sharing("brand")) < MaxSameBrand
                   /\ Cardinality(sharing("category")) < CategoryLimit(sorted[i])

\* C24: the diversity pass is one forward scan of the sorted list: it
\* returns a sub-sequence of the sorted list of at most 15 candidates, and
\* a candidate is admitted exactly when the scan has not yet admitted 15
\* and, of the candidates admitted before it, fewer than 2 share its brand
\* and fewer than its category limit share its category; a rejected
\* candidate is not taken up again.
C24_GreedyScan ==
    (kpc # "ready" /\ kranked.outcome = "returned") =>
        /\ Len(kranked.value) <= MaxRerank
        /\ \A sorted \in {SortedInput} :
           \A place \in {[n \in 1..Len(kranked.value) |->
                             PlaceIn(sorted, kranked.value[n])]} :
               IsGreedyScan(sorted, kranked.value, place)

\* C24: a returned list in which a candidate of an intent category was
\* admitted as the third or fourth of its category, and a candidate the
\* scan rejected stands in the sorted list before one it admitted.
C24_Witness ==
    /\ kpc # "ready"
    /\ kranked.outcome = "returned"
    /\ \E n \in 1..Len(kranked.value) :
           LET category == kranked.value[n].metadata.category
           IN  /\ IsStr(category)
               /\ IsIntentCategory(category, kintent)
               /\ Cardinality(Carrying(kranked.value, "category", category)) > 2
    /\ \A sorted \in {SortedInput} :
           \E i, j \in 1..Len(sorted) :
               /\ i < j
               /\ PlaceIn(kranked.value, sorted[i]) = 0
               /\ PlaceIn(kranked.value, sorted[j]) > 0

-----------------------------------------------------------------------------
(* Properties of the contents of the fallback synthesis *)

\* the places, among the first ten ranked chunks, where a product id
\* occurs for the first time
FirstOfProduct ==
    LET chunks == FirstN(ranked, PromptChunks) IN
    {i \in 1..Len(chunks) :
        /\ Truthy(PyGet(chunks[i].metadata.product_id))
        /\ \A j \in 1..(i - 1) :
              chunks[j].metadata.product_id # chunks[i].metadata.product_id}

\* the first up to six distinct product ids of these chunks, in the order
\* in which they are met
FirstSixProducts ==
    [n \in 1..Min(FallbackChunks, Cardinality(FirstOfProduct)) |->
        ranked[CHOOSE i \in FirstOfProduct :
                   Cardinality({j \in FirstOfProduct : j < i}) = n - 1]
            .metadata.product_id]

\* C25: the fallback synthesis is built from the first 10 ranked chunks:
\* comparisons has one entry for each of the first up to 6 distinct
\* product ids among them, in the order in which they are met, and
\* top_pick is the first of these; when there is no product, top_pick and
\* budget_pick are the fixed "none found" strings.
C25_FallbackOfTenChunks ==
    (cpc = "done" /\ composed.outcome = "returned" /\ composed.path = "fallback") =>
        LET comparisons == Get(composed.value.comparisons) IN
        /\ [k \in 1..Len(comparisons) |-> comparisons[k].product_id]
               = FirstSixProducts
        /\ comparisons # <<>> => composed.value.top_pick = comparisons[1].name
        /\ FirstSixProducts = <<>> =>
               /\ composed.value.top_pick = Str("No products found")
               /\ composed.value.budget_pick = Str("No budget option found")

-----------------------------------------------------------------------------
(* Properties of the budget of an intent *)

\* line 211: the test under which stage 3 of retrieve_with_intent filters
\* by price
FilterApplies(anIntent) ==
    anIntent.budget_mentioned /\ Truthy(anIntent.price_range)

\* C26: for every query the intent has price_range unset or a positive
\* number, budget_mentioned is true exactly when price_range is set, and
\* so every intent with budget_mentioned = true has the price filter of
\* stage 3 applied.
C26_BudgetIsPositive ==
    ipc = "done" =>
        /\ intent.price_range = Null
              \/ (IsNum(intent.price_range) /\ Get(intent.price_range) > 0)
        /\ intent.budget_mentioned <=> intent.price_range # Null
        /\ intent.budget_mentioned => FilterApplies(intent)

-----------------------------------------------------------------------------
(* Properties of update_preferences on a shared preference file *)

\* the profile the file holds for a user: one, or none
StoredProfile(file, aShape, user_id) ==
    IF aShape = "dict" /\ user_id \in DOMAIN file THEN <<file[user_id]>>
    ELSE <<>>

\* C27: update_preferences(u, product, like) changes only the stored
\* profile of u: the profiles stored for all other users are after the
\* call what they were before it, also when a read of the file fails
\* during the call.
C27_OtherProfilesKept ==
    [][finished'.op = "update_preferences" =>
          \A v \in Users \ {finished'.user_id} :
              StoredProfile(prefs', shape', v) = StoredProfile(prefs, shape, v)
     ]_vars

\* the Interaction the call of user u recorded is in u's stored profile
UpdateStored(u) ==
    /\ u \in DOMAIN prefs
    /\ \A k \in 1..Len(recorded[u]) :
           recorded[u][k] \in Range(prefs[u].interaction_history)

BothDone == \A u \in Users : upc[u] = "done"

\* C28: when the calls of update_preferences for two different user ids
\* interleave, then once both have completed each user's stored profile
\* contains the Interaction recorded by that user's call
C28_NoLostUpdate == BothDone => \A u \in Users : UpdateStored(u)

=============================================================================
